---- MODULE Spec2Model ----
(***************************************************************************)
(* A model of the Yeastar connector: the webhook receiver (api.py), the    *)
(* periodic synchronizer (sync.py), the PBX client's token handling        *)
(* (yeastar_client.py, in its two variants) and the phone helpers          *)
(* (utils.py).                                                             *)
(*                                                                         *)
(* Python strings are sequences of one-character strings, so that strip,   *)
(* lower, slicing and the regular expressions of normalize_phone are       *)
(* computed character by character.  A Python value (None, a str, an int)  *)
(* is a record [t, i, s] with a tag, so that None, "" and 0 stay distinct. *)
(***************************************************************************)
EXTENDS Integers, Sequences, FiniteSets, TLC

VARIABLES
    settings,   \* the "Yeastar Settings" single document
    now,        \* the wall clock, in seconds (time.time / now_datetime)
    calls,      \* the "Yeastar Call Log" table, in insertion order
    leads,      \* the "Lead" table, in insertion order
    agents,     \* the "Yeastar Agent" table, in insertion order
    hist,       \* history: the upserts applied so far, oldest first
    proc,       \* the concurrent upsert handlers, each between lookup and write
    run,        \* the position of the scheduled sync.run()
    reqLog,     \* history: the page requests of the current pagination loop
    caller,     \* the concurrent ensure_token() calls
    pbx,        \* the PBX token endpoint: tokens issued, requests received
    webhook_log \* the Error Log entries written by api.py, oldest first

vars == <<settings, now, calls, leads, agents, hist, proc, run, reqLog, caller, pbx,
          webhook_log>>

(***************************************************************************)
(* Python values                                                           *)
(***************************************************************************)
None == [t |-> "none", i |-> 0, s |-> <<>>]

S(x) == [t |-> "str", i |-> 0, s |-> x]

I(n) == [t |-> "int", i |-> n, s |-> <<>>]

\* bool(v): None, "" and 0 are falsy
Truthy(v) == (v.t = "str" /\ v.s # <<>>) \/ (v.t = "int" /\ v.i # 0)

\* v in (None, "", 0)
IsEmptyValue(v) == ~Truthy(v)

\* a or b
Or(a, b) == IF Truthy(a) THEN a ELSE b

Max(a, b) == IF a >= b THEN a ELSE b

(***************************************************************************)
(* Strings                                                                 *)
(***************************************************************************)
DigitChars == <<"0", "1", "2", "3", "4", "5", "6", "7", "8", "9">>

Digit == {DigitChars[k] : k \in 1..10}

UpperChars == <<"A", "B", "C", "D", "E", "F", "G", "H", "I", "J", "K", "L", "M",
                "N", "O", "P", "Q", "R", "S", "T", "U", "V", "W", "X", "Y", "Z">>

LowerChars == <<"a", "b", "c", "d", "e", "f", "g", "h", "i", "j", "k", "l", "m",
                "n", "o", "p", "q", "r", "s", "t", "u", "v", "w", "x", "y", "z">>

Whitespace == {" "}

\* one character of str.lower()
LowerChar(c) ==
    IF \E k \in 1..26 : UpperChars[k] = c
    THEN LowerChars[CHOOSE k \in 1..26 : UpperChars[k] = c]
    ELSE c

\* str.lower()
Lower(x) == [k \in 1..Len(x) |-> LowerChar(x[k])]

\* x[:n]
Take(x, n) == IF Len(x) <= n THEN x ELSE SubSeq(x, 1, n)

\* x[n:]
Drop(x, n) == IF Len(x) <= n THEN <<>> ELSE SubSeq(x, n + 1, Len(x))

\* x.startswith(prefix)
StartsWith(x, prefix) == Len(prefix) <= Len(x) /\ SubSeq(x, 1, Len(prefix)) = prefix

\* re.sub of every character outside `keep` by ""
RECURSIVE KeepChars(_, _)
KeepChars(x, keep) ==
    IF x = <<>> THEN <<>>
    ELSE (IF Head(x) \in keep THEN <<Head(x)>> ELSE <<>>) \o KeepChars(Tail(x), keep)

RECURSIVE LStrip(_)
LStrip(x) == IF x # <<>> /\ Head(x) \in Whitespace THEN LStrip(Tail(x)) ELSE x

RECURSIVE RStrip(_)
RStrip(x) ==
    IF x # <<>> /\ x[Len(x)] \in Whitespace THEN RStrip(SubSeq(x, 1, Len(x) - 1)) ELSE x

\* str.strip()
Strip(x) == RStrip(LStrip(x))

\* str.isdigit()
IsDigit(x) == x # <<>> /\ \A k \in 1..Len(x) : x[k] \in Digit

DigitValue(c) == (CHOOSE k \in 1..10 : DigitChars[k] = c) - 1

\* the decimal numeral of a natural number
RECURSIVE Numeral(_)
Numeral(n) == IF n < 10 THEN <<DigitChars[n + 1]>> ELSE Numeral(n \div 10) \o <<DigitChars[(n % 10) + 1]>>

\* the number a string of digits denotes
RECURSIVE DigitsToInt(_)
DigitsToInt(x) ==
    IF x = <<>> THEN 0 ELSE 10 * DigitsToInt(SubSeq(x, 1, Len(x) - 1)) + DigitValue(x[Len(x)])

\* str(v), and the way an f-string renders v
Str(v) ==
    CASE v.t = "str" -> v.s
      [] v.t = "int" -> IF v.i < 0 THEN <<"-">> \o Numeral(-v.i) ELSE Numeral(v.i)
      [] OTHER -> <<"N", "o", "n", "e">>

\* int(v): [ok, n]; ok is FALSE where Python raises
ToInt(v) ==
    CASE v.t = "int" -> [ok |-> TRUE, n |-> v.i]
      [] v.t = "str" ->
            LET x == Strip(v.s)
            IN  IF IsDigit(x) THEN [ok |-> TRUE, n |-> DigitsToInt(x)]
                ELSE IF x # <<>> /\ Head(x) = "-" /\ IsDigit(Tail(x))
                     THEN [ok |-> TRUE, n |-> -DigitsToInt(Tail(x))]
                     ELSE [ok |-> FALSE, n |-> 0]
      [] OTHER -> [ok |-> FALSE, n |-> 0]

(***************************************************************************)
(* utils.py                                                                *)
(***************************************************************************)
\* a normalize_phone without the rule for a leading 00
NormalizePhoneNoDoubleZero(phone, default_cc) ==
    IF phone = <<>> THEN <<>>
    ELSE
        LET p0 == KeepChars(Strip(phone), Digit \cup {"+"})
        IN  IF StartsWith(p0, <<"+">>) THEN <<"+">> \o KeepChars(Drop(p0, 1), Digit)
            ELSE IF StartsWith(p0, KeepChars(default_cc, Digit)) THEN <<"+">> \o p0
            ELSE default_cc \o (IF StartsWith(p0, <<"0">>) THEN Drop(p0, 1) ELSE p0)

\* a normalize_phone that keeps the leading 0 of a local number
NormalizePhoneKeepLocalZero(phone, default_cc) ==
    IF phone = <<>> THEN <<>>
    ELSE
        LET p0 == KeepChars(Strip(phone), Digit \cup {"+"})
            p1 == IF StartsWith(p0, <<"0", "0">>) THEN <<"+">> \o Drop(p0, 2) ELSE p0
        IN  IF StartsWith(p1, <<"+">>) THEN <<"+">> \o KeepChars(Drop(p1, 1), Digit)
            ELSE IF StartsWith(p1, KeepChars(default_cc, Digit)) THEN <<"+">> \o p1
            ELSE default_cc \o p1

normalize_phone(phone, default_cc) ==
    IF phone = <<>> THEN <<>>
    ELSE
        LET p0 == KeepChars(Strip(phone), Digit \cup {"+"})
            p1 == IF StartsWith(p0, <<"0", "0">>) THEN <<"+">> \o Drop(p0, 2) ELSE p0
            cc_digits == KeepChars(default_cc, Digit)
        IN  IF StartsWith(p1, <<"+">>) THEN <<"+">> \o KeepChars(Drop(p1, 1), Digit)
            ELSE IF StartsWith(p1, cc_digits) THEN <<"+">> \o p1
            ELSE default_cc \o (IF StartsWith(p1, <<"0">>) THEN Drop(p1, 1) ELSE p1)

(***************************************************************************)
(* Dictionaries: a payload is a function from its keys to Python values    *)
(***************************************************************************)
\* payload.get(key)
Get(payload, key) == IF key \in DOMAIN payload THEN payload[key] ELSE None

\* payload.get(k1) or payload.get(k2) or ... : the first truthy value, else the last operand
RECURSIVE OrChain(_, _)
OrChain(payload, keys) ==
    IF Len(keys) = 1 THEN Get(payload, keys[1])
    ELSE Or(Get(payload, keys[1]), OrChain(payload, Tail(keys)))

(***************************************************************************)
(* The stores the handlers read and write                                  *)
(***************************************************************************)
\* frappe.db.get_value(table, {field: value}, "name"): the first match, 0 when none
RECURSIVE FindBy(_, _, _)
FindBy(table, fieldname, value) ==
    IF table = <<>> THEN 0
    ELSE IF table[Len(table)][fieldname] = value
              /\ FindBy(SubSeq(table, 1, Len(table) - 1), fieldname, value) = 0
         THEN Len(table)
         ELSE FindBy(SubSeq(table, 1, Len(table) - 1), fieldname, value)

\* the Customer table: written by the ERP, never by the connector
Customers == << [name |-> S(<<"C", "1">>), mobile_no |-> S(<<"+", "9", "6", "6", "5", "5", "5", "1">>)] >>

\* the name the ERP gives the n-th Lead
LeadName(n) == S(<<"L">> \o Numeral(n))

find_party_by_phone(phone_norm, leadTable) ==
    IF phone_norm = <<>> THEN [doctype |-> None, name |-> None]
    ELSE IF FindBy(Customers, "mobile_no", S(phone_norm)) # 0
         THEN [doctype |-> S(<<"C", "u", "s", "t", "o", "m", "e", "r">>),
               name |-> Customers[FindBy(Customers, "mobile_no", S(phone_norm))].name]
         ELSE IF FindBy(leadTable, "mobile_no", S(phone_norm)) # 0
              THEN [doctype |-> S(<<"L", "e", "a", "d">>),
                    name |-> leadTable[FindBy(leadTable, "mobile_no", S(phone_norm))].name]
              ELSE [doctype |-> None, name |-> None]

\* the Lead table after create_lead_from_phone(phone_norm)
create_lead_from_phone(phone_norm, leadTable) ==
    Append(leadTable, [name |-> LeadName(Len(leadTable) + 1),
                       lead_name |-> S(phone_norm), mobile_no |-> S(phone_norm)])

get_agent_user_by_extension(extension, agentTable) ==
    IF extension = <<>> THEN None
    ELSE IF FindBy(agentTable, "extension", S(extension)) = 0 THEN None
         ELSE agentTable[FindBy(agentTable, "extension", S(extension))].user

(***************************************************************************)
(* api.py: the webhook's event extraction                                  *)
(***************************************************************************)
_extract_event(payload) ==
    LET call_id == OrChain(payload, <<"call_id", "callId", "unique_id", "uniqueid", "id",
                                      "cdr_id", "cdrId">>)
        direction == Or(OrChain(payload, <<"direction", "call_direction", "type">>), S(<<>>))
        status == Or(OrChain(payload, <<"status", "event", "state", "call_state">>), S(<<>>))
        from_no == Or(OrChain(payload, <<"from", "caller", "caller_number", "callerNumber",
                                         "src">>), S(<<>>))
        to_no == Or(OrChain(payload, <<"to", "callee", "callee_number", "calleeNumber",
                                       "dst">>), S(<<>>))
        extension == Or(OrChain(payload, <<"extension", "ext", "agent_extension",
                                           "extension_number", "agent_ext">>), S(<<>>))
        duration == OrChain(payload, <<"duration", "billsec", "talk_time", "talkTime">>)
    IN  [call_id |-> IF Truthy(call_id) THEN S(Str(call_id)) ELSE None,
         direction |-> S(Take(Lower(Str(direction)), 20)),
         status |-> S(Take(Lower(Str(status)), 30)),
         from_no |-> S(Str(from_no)),
         to_no |-> S(Str(to_no)),
         extension |-> S(Str(extension)),
         start_time |-> OrChain(payload, <<"start_time", "startTime", "start_ts", "startTs">>),
         end_time |-> OrChain(payload, <<"end_time", "endTime", "end_ts", "endTs">>),
         duration |-> IF IsDigit(Str(duration)) THEN I(DigitsToInt(Str(duration))) ELSE None,
         recording_url |-> Or(OrChain(payload, <<"recording_url", "recordingUrl", "recording",
                                                 "record_url">>), S(<<>>))]

\* sha1(base)[:20]: a function of the joined text alone, taken to be free of collisions
Sha1Hex20(base) == <<"#">> \o base

_stable_fallback_id(data) ==
    Sha1Hex20(Str(data.from_no) \o <<"|">> \o Str(data.to_no) \o <<"|">> \o Str(data.extension)
              \o <<"|">> \o Str(data.status) \o <<"|">> \o Str(data.start_time))

\* x.replace(c, "")
RECURSIVE RemoveChar(_, _)
RemoveChar(x, c) ==
    IF x = <<>> THEN <<>>
    ELSE (IF Head(x) = c THEN <<>> ELSE <<Head(x)>>) \o RemoveChar(Tail(x), c)

\* _looks_ext, the inner helper of _upsert_call_log
_looks_ext(x) ==
    LET y == Strip(RemoveChar(x, "+"))
    IN  IsDigit(y) /\ 2 <= Len(y) /\ Len(y) <= 6

(***************************************************************************)
(* The merge both upserts apply to an existing document                    *)
(***************************************************************************)
\* the fields a "Yeastar Call Log" document holds
DocFields == {"call_id", "direction", "status", "from_number", "to_number", "extension",
              "agent_user", "linked_doctype", "linked_name", "duration", "recording_url",
              "raw_payload", "last_event_at", "start_time", "end_time"}

\* a merge that treats status as one more fill-if-empty field
AlwaysFreshWithoutStatus == {"last_event_at", "raw_payload"}

\* the fields the merge always overwrites
AlwaysFresh == {"last_event_at", "raw_payload", "status"}

\* a merge that overwrites every field with the incoming value
MergeFieldLastWins(stored, v) == v

\* a merge that lets a non-empty incoming value replace a non-empty stored one
MergeFieldOverwrite(stored, v) == IF IsEmptyValue(v) THEN stored ELSE v

\* one pass of the loop over doc_data.items() for a field outside AlwaysFresh
MergeField(stored, v) ==
    IF IsEmptyValue(v) THEN stored
    ELSE IF ~Truthy(stored) \/ stored \in {S(<<>>), I(0)} THEN v
    ELSE stored

\* the loop over doc_data.items() on the existing document
MergeDoc(doc, doc_data) ==
    [k \in DocFields |->
        IF k \notin DOMAIN doc_data THEN doc[k]
        ELSE IF k \in AlwaysFresh THEN doc_data[k]
        ELSE MergeField(doc[k], doc_data[k])]

\* frappe.get_doc(doc_data): a field doc_data does not give reads as None
NewDoc(doc_data) == [k \in DocFields |-> IF k \in DOMAIN doc_data THEN doc_data[k] ELSE None]

\* the keys start_time / end_time are set only when the event carries them
TimeKeys(start_time, end_time) ==
    (IF Truthy(start_time) THEN {"start_time"} ELSE {})
        \cup (IF Truthy(end_time) THEN {"end_time"} ELSE {})

\* a write that inserts whatever the lookup found
WriteCallLogAlwaysInsert(callTable, existing, doc_data) == Append(callTable, NewDoc(doc_data))

\* the write that ends both upserts: merge into the document found, or insert
WriteCallLog(callTable, existing, doc_data) ==
    IF existing # 0
    THEN [callTable EXCEPT ![existing] = MergeDoc(callTable[existing], doc_data)]
    ELSE Append(callTable, NewDoc(doc_data))

(***************************************************************************)
(* api.py: _upsert_call_log, up to and including its lookup                *)
(***************************************************************************)
\* [skipped, call_id, existing, doc_data, leads]: what the handler holds before it writes
WebhookLookup(data0, raw_payload, s, t, callTable, leadTable, agentTable) ==
    LET call_id == IF Truthy(data0.call_id) THEN data0.call_id
                   ELSE S(_stable_fallback_id(data0))
        default_cc == Str(Or(s.phone_country_code, S(<<"+", "9", "6", "6">>)))
        from_norm == normalize_phone(Str(data0.from_no), default_cc)
        to_norm == normalize_phone(Str(data0.to_no), default_cc)
        party_phone == IF data0.direction \in {S(<<"i", "n", "b", "o", "u", "n", "d">>),
                                               S(<<"i", "n", "c", "o", "m", "i", "n", "g">>),
                                               S(<<"i", "n">>)}
                       THEN from_norm ELSE to_norm
        found == find_party_by_phone(party_phone, leadTable)
        create == ~Truthy(found.name) /\ s.create_lead_if_not_found # 0
        leadTable2 == IF create THEN create_lead_from_phone(party_phone, leadTable) ELSE leadTable
        keys == (DocFields \ {"start_time", "end_time"})
                    \cup TimeKeys(data0.start_time, data0.end_time)
        doc_data ==
            [k \in keys |->
                CASE k = "call_id" -> call_id
                  [] k = "direction" -> data0.direction
                  [] k = "status" -> data0.status
                  [] k = "from_number" -> S(from_norm)
                  [] k = "to_number" -> S(to_norm)
                  [] k = "extension" -> data0.extension
                  [] k = "agent_user" -> get_agent_user_by_extension(Str(data0.extension), agentTable)
                  [] k = "linked_doctype" ->
                        IF create THEN S(<<"L", "e", "a", "d">>) ELSE found.doctype
                  [] k = "linked_name" ->
                        IF create THEN LeadName(Len(leadTable2)) ELSE found.name
                  [] k = "duration" -> data0.duration
                  [] k = "recording_url" -> data0.recording_url
                  [] k = "raw_payload" -> raw_payload
                  [] k = "last_event_at" -> I(t)
                  [] k = "start_time" -> S(Str(data0.start_time))
                  [] k = "end_time" -> S(Str(data0.end_time))]
    IN  IF s.ignore_internal_calls # 0 /\ _looks_ext(from_norm) /\ _looks_ext(to_norm)
        THEN [skipped |-> TRUE, call_id |-> call_id, existing |-> 0, doc_data |-> <<>>,
              leads |-> leadTable]
        ELSE [skipped |-> FALSE, call_id |-> call_id,
              existing |-> FindBy(callTable, "call_id", call_id),
              doc_data |-> doc_data, leads |-> leadTable2]

(***************************************************************************)
(* sync.py: upsert_call_log, up to and including its lookup                *)
(***************************************************************************)
SyncLookup(row, s, t, callTable) ==
    LET id0 == Strip(Str(Or(OrChain(row, <<"call_id", "uniqueid", "id", "cdr_id", "cdrId">>),
                            S(<<>>))))
        call_id == IF id0 # <<>> THEN id0
                   ELSE Str(Get(row, "start_time")) \o <<"-">> \o Str(Get(row, "src"))
                            \o <<"-">> \o Str(Get(row, "dst"))
        direction == Lower(Strip(Str(Or(OrChain(row, <<"direction", "call_direction", "type">>),
                                        S(<<>>)))))
        status == Lower(Strip(Str(Or(OrChain(row, <<"status", "state", "event", "call_state">>),
                                     S(<<>>)))))
        src == Strip(Str(Or(OrChain(row, <<"src", "caller", "caller_number", "callerNumber",
                                           "from">>), S(<<>>))))
        dst == Strip(Str(Or(OrChain(row, <<"dst", "callee", "callee_number", "calleeNumber",
                                           "to">>), S(<<>>))))
        default_cc == Str(Or(s.phone_country_code, S(<<"+", "9", "6", "6">>)))
        src_n == normalize_phone(src, default_cc)
        dst_n == normalize_phone(dst, default_cc)
        extension == Strip(Str(Or(OrChain(row, <<"extension", "ext", "agent_ext",
                                                 "agent_extension">>), S(<<>>))))
        start_time == OrChain(row, <<"start_time", "startTime", "start_ts", "startTs">>)
        end_time == OrChain(row, <<"end_time", "endTime", "end_ts", "endTs">>)
        duration0 == Or(OrChain(row, <<"duration", "billsec", "talk_time", "talkTime">>), I(0))
        duration == IF ToInt(duration0).ok THEN I(ToInt(duration0).n) ELSE I(0)
        recording_url == Strip(Str(Or(OrChain(row, <<"recording_url", "record_url", "recording",
                                                     "recordingUrl">>), S(<<>>))))
        keys == (DocFields \ {"start_time", "end_time", "agent_user", "linked_doctype",
                              "linked_name"})
                    \cup TimeKeys(start_time, end_time)
        doc_data ==
            [k \in keys |->
                CASE k = "call_id" -> S(call_id)
                  [] k = "direction" -> Or(S(direction), None)
                  [] k = "status" -> Or(S(status), None)
                  [] k = "from_number" -> Or(S(src_n), None)
                  [] k = "to_number" -> Or(S(dst_n), None)
                  [] k = "extension" -> Or(S(extension), None)
                  [] k = "duration" -> Or(duration, None)
                  [] k = "recording_url" -> Or(S(recording_url), None)
                  [] k = "raw_payload" -> row
                  [] k = "last_event_at" -> I(t)
                  [] k = "start_time" -> S(Str(start_time))
                  [] k = "end_time" -> S(Str(end_time))]
    IN  [skipped |-> FALSE, call_id |-> S(call_id),
         existing |-> FindBy(callTable, "call_id", S(call_id)),
         doc_data |-> doc_data, leads |-> <<>>]

(***************************************************************************)
(* api.py: the webhook handler                                             *)
(***************************************************************************)
\* a _require_secret that lets every delivery in when no secret is configured
RequireSecretWhenSet(s, delivery) ==
    LET expected == Strip(Str(Or(s.webhook_secret, S(<<>>))))
        headers == Or(S(Strip(Str(Or(delivery.x_yeastar_secret, S(<<>>))))),
                      S(Strip(Str(Or(delivery.x_webhook_secret, S(<<>>))))))
        body == Or(Get(delivery.payload, "secret"), Get(delivery.payload, "webhook_secret"))
    IN  expected = <<>> \/ Or(headers, S(Strip(Str(Or(body, S(<<>>)))))).s = expected

\* _require_secret: TRUE when it returns, FALSE when it throws PermissionError
_require_secret(s, delivery) ==
    LET expected == Strip(Str(Or(s.webhook_secret, S(<<>>))))
        incoming ==
            Or(S(Strip(Str(Or(delivery.x_yeastar_secret, S(<<>>))))),
               Or(S(Strip(Str(Or(delivery.x_webhook_secret, S(<<>>))))),
                  S(Strip(Str(Or(Or(Get(delivery.payload, "secret"),
                                    Get(delivery.payload, "webhook_secret")), S(<<>>)))))))
    IN  expected # <<>> /\ incoming.s = expected

\* what webhook() holds once _upsert_call_log has looked the call up:
\* [result, look], result one of disabled, rejected, skipped, lookedup
WebhookBegin(delivery, s, t, st) ==
    IF s.enabled = 0 THEN [result |-> "disabled", look |-> <<>>]
    ELSE IF ~_require_secret(s, delivery) THEN [result |-> "rejected", look |-> <<>>]
    ELSE LET look == WebhookLookup(_extract_event(delivery.payload), delivery.payload, s, t,
                                   st.calls, st.leads, st.agents)
         IN  [result |-> IF look.skipped THEN "skipped" ELSE "lookedup", look |-> look]

\* what upsert_call_log(row, settings) holds once it has looked the call up.
\* Its closing try_link_crm is behind the flag auto_link_crm, which the
\* settings document of this repository does not define: _get_flag reads 0.
SyncBegin(row, s, t, st) ==
    [result |-> "lookedup", look |-> SyncLookup(row, s, t, st.calls)]

\* the first half of either upsert
Begin(path, input, s, t, st) ==
    IF path = "webhook" THEN WebhookBegin(input, s, t, st) ELSE SyncBegin(input, s, t, st)

\* the stores after the second half: the write, with the lookup's answer
Finish(path, begun, st) ==
    IF begun.result # "lookedup" THEN st
    ELSE [calls |-> WriteCallLog(st.calls, begun.look.existing, begun.look.doc_data),
          leads |-> IF path = "webhook" THEN begun.look.leads ELSE st.leads,
          agents |-> st.agents]

\* the name of the document the second half writes (0: none)
WrittenName(begun, st) ==
    IF begun.result # "lookedup" THEN 0
    ELSE IF begun.look.existing # 0 THEN begun.look.existing ELSE Len(st.calls) + 1

\* an upsert that extracts, looks up and writes before the secret is validated
UpsertBeforeSecretCheck(path, input, s, t, st) ==
    IF path = "webhook" /\ s.enabled # 0
    THEN Finish(path, [result |-> "lookedup",
                       look |-> WebhookLookup(_extract_event(input.payload), input.payload, s, t,
                                              st.calls, st.leads, st.agents)], st)
    ELSE Finish(path, Begin(path, input, s, t, st), st)

\* a whole upsert, run without interruption
Upsert(path, input, s, t, st) == Finish(path, Begin(path, input, s, t, st), st)

\* the entry the history keeps of an upsert
HistEntry(path, input, t, begun, st) ==
    [path |-> path, input |-> input, at |-> t,
     result |-> IF begun.result = "lookedup" THEN "stored" ELSE begun.result,
     name |-> WrittenName(begun, st),
     call_id |-> IF begun.result \in {"lookedup", "skipped"} THEN begun.look.call_id ELSE None]

(***************************************************************************)
(* api.py: the Error Log.  The message of an entry is held as the set of   *)
(* the texts put into it; no body here reaches the 2000 or 4000 characters *)
(* the code cuts a message at                                              *)
(***************************************************************************)
ErrorLogEntry(title, parts) == [title |-> title, parts |-> parts]

\* _log: an entry only when debug_webhook is set
_log(title, parts, s) ==
    IF s.debug_webhook # 0 THEN <<ErrorLogEntry(title, parts)>> ELSE <<>>

\* the values the text of a request body spells out
BodyValues(payload) == {Str(payload[k]) : k \in DOMAIN payload}

X_Yeastar_Secret ==
    <<"X", "-", "Y", "e", "a", "s", "t", "a", "r", "-", "S", "e", "c", "r", "e", "t">>

X_Webhook_Secret ==
    <<"X", "-", "W", "e", "b", "h", "o", "o", "k", "-", "S", "e", "c", "r", "e", "t">>

\* the entry _require_secret writes when the incoming secret is not the expected one
MismatchLogged(delivery) ==
    ErrorLogEntry("Yeastar Webhook Secret mismatch",
                  (IF Truthy(delivery.x_yeastar_secret) THEN {X_Yeastar_Secret} ELSE {})
                      \cup (IF Truthy(delivery.x_webhook_secret) THEN {X_Webhook_Secret} ELSE {}))

\* the entry _upsert_call_log writes when it skips an internal call
SkippedLogged(data, s) ==
    _log("Yeastar Webhook skipped (internal call)",
         {normalize_phone(Str(data.from_no), Str(Or(s.phone_country_code, S(<<"+", "9", "6", "6">>)))),
          normalize_phone(Str(data.to_no), Str(Or(s.phone_country_code, S(<<"+", "9", "6", "6">>)))),
          Str(data.extension), Str(data.status)}, s)

\* the entries webhook() writes for a delivery, begun being how it went
WebhookLogged(delivery, s, begun) ==
    IF begun.result = "disabled" THEN <<>>
    ELSE _log("Yeastar Webhook HIT", BodyValues(delivery.payload), s)
         \o (IF begun.result = "rejected" /\ Strip(Str(Or(s.webhook_secret, S(<<>>)))) # <<>>
             THEN <<MismatchLogged(delivery)>> ELSE <<>>)
         \o (IF begun.result = "skipped" THEN SkippedLogged(_extract_event(delivery.payload), s)
             ELSE <<>>)

\* the entries an upsert writes: sync.py's upsert_call_log writes none
Logged(path, input, s, begun) ==
    IF path = "webhook" THEN WebhookLogged(input, s, begun) ELSE <<>>

(***************************************************************************)
(* yeastar_client.py: the token.  Two variants of the client exist: the    *)
(* P-Series one ("pseries", yeastar_connector/yeastar_client.py, the one   *)
(* sync.py imports) and the client-credentials one ("oauth",               *)
(* yeastar_connector/yeastar_connector/yeastar_client.py).                 *)
(***************************************************************************)
\* the margin before expiry at which a token counts as expired
RefreshMargin == 60

\* the lifetime assumed when the P-Series response names none
DefaultExpiresIn == 1800

\* the lifetime assumed when the client-credentials response names none
DefaultOAuthExpiresIn == 3600

\* _token_valid
_token_valid(s, t) ==
    /\ s.access_token # <<>>
    /\ s.token_expires_at_ts # 0
    /\ t < s.token_expires_at_ts - RefreshMargin

\* the n-th access token and the n-th refresh token the PBX issues
AccessToken(n) == <<"t">> \o Numeral(n)

RefreshToken(n) == <<"r">> \o Numeral(n)

\* the response is a success the client accepts: no transport failure, status below
\* 300, no error code (the client-credentials variant does not look at errcode),
\* and an access token in the body
Accepted(client, r) ==
    /\ r.kind = "ok"
    /\ client = "pseries" => r.errcode \in {I(0), S(<<"0">>), None}
    /\ r.has_token

\* expires_in as the client reads it off an accepted token response
ExpiresIn(client, pc, r) ==
    IF client = "oauth" THEN (IF r.expires_in # 0 THEN r.expires_in ELSE DefaultOAuthExpiresIn)
    ELSE IF r.access_token_expire_time # 0 THEN r.access_token_expire_time
    ELSE IF pc # "refresh" /\ r.expires_in # 0 THEN r.expires_in
    ELSE DefaultExpiresIn

\* the settings after the client stored an accepted response
StoreToken(client, pc, s, t, px, r) ==
    [s EXCEPT !.access_token = AccessToken(px.issued + 1),
              !.token_expires_at_ts = t + ExpiresIn(client, pc, r),
              !.refresh_token = IF r.has_refresh THEN RefreshToken(px.issued + 1) ELSE @]

\* where ensure_token() stands after its check: "cached" when it returns the stored
\* token, else the request it has sent ("refresh", "get", "oauth")
EnsureStart(client, s, t) ==
    IF _token_valid(s, t) THEN "cached"
    ELSE IF client = "oauth" THEN "oauth"
    ELSE IF s.refresh_token # <<>> THEN "refresh"
    ELSE "get"

\* where ensure_token() stands after the response r to the request it was waiting
\* for at pc: "stored" (it returns the new token), "raised", or the next request:
\* "get_in_refresh" is refresh_token's own fallback to get_token, "get_retry" the
\* get_token of ensure_token's except branch
AfterResponse(client, pc, r) ==
    IF Accepted(client, r) THEN "stored"
    ELSE CASE pc = "refresh" -> IF r.kind = "transport" THEN "get_retry" ELSE "get_in_refresh"
           [] pc = "get_in_refresh" -> "get_retry"
           [] OTHER -> "raised"

\* the positions at which a token request is in flight
InFlight == {"refresh", "get", "get_in_refresh", "get_retry", "oauth"}

\* the PBX after it answered r: it counts the request, and an accepted answer
\* carried a newly issued token
PbxAfter(client, px, r) ==
    [px EXCEPT !.requests = @ + 1,
               !.issued = IF Accepted(client, r) THEN @ + 1 ELSE @]

\* ensure_token() run without interruption at time t, the PBX answering its requests
\* with rs[1], rs[2], ... : [ok, token, settings, pbx, sent]
RECURSIVE EnsureFrom(_, _, _, _, _, _, _)
EnsureFrom(client, pc, s, t, px, rs, sent) ==
    CASE pc = "cached" -> [ok |-> TRUE, token |-> s.access_token, settings |-> s, pbx |-> px,
                           sent |-> sent]
      [] pc = "raised" -> [ok |-> FALSE, token |-> <<>>, settings |-> s, pbx |-> px,
                           sent |-> sent]
      [] OTHER ->
            LET r == Head(rs)
                next == AfterResponse(client, pc, r)
            IN  IF next = "stored"
                THEN [ok |-> TRUE, token |-> AccessToken(px.issued + 1),
                      settings |-> StoreToken(client, pc, s, t, px, r),
                      pbx |-> PbxAfter(client, px, r), sent |-> sent + 1]
                ELSE EnsureFrom(client, next, s, t, PbxAfter(client, px, r), Tail(rs), sent + 1)

ensure_token(client, s, t, px, rs) == EnsureFrom(client, EnsureStart(client, s, t), s, t, px, rs, 0)

(***************************************************************************)
(* sync.py: the pages.  A decoded response body is [isdict, d]; the values *)
(* of d are lists of rows, nested dictionaries, integers or anything else  *)
(***************************************************************************)
PList(rows) == [t |-> "list", rows |-> rows, d |-> <<>>, i |-> 0]

PDict(d) == [t |-> "dict", rows |-> <<>>, d |-> d, i |-> 0]

PInt(n) == [t |-> "int", rows |-> <<>>, d |-> <<>>, i |-> n]

POther == [t |-> "other", rows |-> <<>>, d |-> <<>>, i |-> 0]

\* d.get(key)
PGet(d, key) == IF key \in DOMAIN d THEN d[key] ELSE POther

\* the first of the keys under which d holds a list (0: none)
RECURSIVE FirstList(_, _, _)
FirstList(d, keys, n) ==
    IF n > Len(keys) THEN 0
    ELSE IF PGet(d, keys[n]).t = "list" THEN n
    ELSE FirstList(d, keys, n + 1)

ItemKeys == <<"data", "items", "list", "records", "result">>

NestedItemKeys == <<"items", "list", "records", "data">>

RECURSIVE ExtractFrom(_, _)
ExtractFrom(d, n) ==
    IF n > Len(ItemKeys) THEN <<>>
    ELSE LET v == PGet(d, ItemKeys[n])
         IN  IF v.t = "list" THEN v.rows
             ELSE IF v.t = "dict" /\ FirstList(v.d, NestedItemKeys, 1) # 0
                  THEN PGet(v.d, NestedItemKeys[FirstList(v.d, NestedItemKeys, 1)]).rows
             ELSE ExtractFrom(d, n + 1)

\* an extraction that looks under "data" only, and not inside it
ExtractItemsUnderData(payload) ==
    IF payload.isdict /\ PGet(payload.d, "data").t = "list" THEN PGet(payload.d, "data").rows
    ELSE <<>>

_extract_items(payload) == IF ~payload.isdict THEN <<>> ELSE ExtractFrom(payload.d, 1)

TotalKeys == <<"total", "total_count", "count">>

\* the first of the keys under which d holds an integer (0: none)
RECURSIVE FirstInt(_, _, _)
FirstInt(d, keys, n) ==
    IF n > Len(keys) THEN 0
    ELSE IF PGet(d, keys[n]).t = "int" THEN n
    ELSE FirstInt(d, keys, n + 1)

\* the total the payload states ([t |-> "other"] when it states none)
TotalOf(payload) ==
    IF payload.isdict /\ FirstInt(payload.d, TotalKeys, 1) # 0
    THEN PGet(payload.d, TotalKeys[FirstInt(payload.d, TotalKeys, 1)])
    ELSE POther

\* a fallback that goes on for as long as a page brings anything
HasMoreUntilEmpty(payload, page, page_size, got) ==
    IF ~payload.isdict THEN FALSE
    ELSE IF TotalOf(payload).t = "int" THEN page * page_size < TotalOf(payload).i
    ELSE got > 0

\* a completeness check that never reads the total
HasMoreIgnoringTotal(payload, page, page_size, got) ==
    IF ~payload.isdict THEN FALSE ELSE got >= page_size

_has_more(payload, page, page_size, got) ==
    IF ~payload.isdict THEN FALSE
    ELSE IF TotalOf(payload).t = "int" THEN page * page_size < TotalOf(payload).i
    ELSE got >= page_size

\* the overlap by which a window starts before the cursor
Overlap == 600

\* the reach of the first window when neither cursor nor sync_from_ts is set
DefaultReach == 24 * 3600

\* _get_time_window: <<start_ts, end_ts>>
_get_time_window(s, t) ==
    LET start0 == IF s.last_sync_at_ts # 0 THEN s.last_sync_at_ts
                  ELSE IF s.sync_from_ts # 0 THEN s.sync_from_ts
                  ELSE t - DefaultReach
    IN  <<Max(0, start0 - Overlap), t>>

\* upsert_agent_from_extension: the agents after it
upsert_agent_from_extension(ext, agentTable) ==
    LET extension == Strip(Str(Or(OrChain(ext, <<"extension", "ext", "number">>), S(<<>>))))
        name == Strip(Str(Or(OrChain(ext, <<"name", "username", "display_name">>), S(<<>>))))
        docname == FindBy(agentTable, "extension", S(extension))
    IN  IF extension = <<>> THEN agentTable
        ELSE IF docname # 0
             THEN IF name # <<>> /\ agentTable[docname].agent_name # S(name)
                  THEN [agentTable EXCEPT ![docname].agent_name = S(name)]
                  ELSE agentTable
        ELSE Append(agentTable, [extension |-> S(extension),
                                 agent_name |-> S(IF name # <<>> THEN name ELSE extension),
                                 user |-> None])

(***************************************************************************)
(* Bounds and inputs                                                       *)
(***************************************************************************)
\* upserts per behaviour
MaxDeliveries == 2

\* the clock stops here
MaxNow == 1

\* concurrent upsert handlers
NumProcs == 2

Procs == 1..NumProcs

c1 == <<"c", "1">>

Secret == <<"k">>

W_ring ==
    [call_id |-> S(c1), direction |-> S(<<"I", "n", "b", "o", "u", "n", "d">>),
     from |-> S(<<"0", "5", "5", "5", "1">>), to |-> S(<<"2", "0", "1">>),
     status |-> S(<<"r", "i", "n", "g", "i", "n", "g">>)]

W_answered ==
    [call_id |-> S(c1), status |-> S(<<"A", "N", "S", "W", "E", "R", "E", "D">>),
     recording_url |-> S(<<"u">>), duration |-> I(5), start_time |-> I(100)]

W_internal ==
    [call_id |-> S(c1), from |-> S(<<"2", "0", "1">>), to |-> S(<<"2", "0", "5">>),
     status |-> S(<<"b", "u", "s", "y">>)]

W_outbound ==
    [callId |-> S(c1), direction |-> S(<<"o", "u", "t", "b", "o", "u", "n", "d">>),
     to |-> S(<<"0", "5", "5", "5", "2">>), status |-> S(<<"r", "i", "n", "g", "i", "n", "g">>),
     duration |-> S(<<"0">>), extension |-> I(201)]

W_noid == [from |-> S(<<"0", "5", "5", "5", "2">>), status |-> S(<<"r", "i", "n", "g", "i", "n", "g">>)]

WebhookPayloads == {W_ring, W_answered, W_internal, W_outbound, W_noid}

Delivered(payload, secret) ==
    [x_yeastar_secret |-> secret, x_webhook_secret |-> None, payload |-> payload]

\* the deliveries the PBX, or anyone else, may post
Deliveries ==
    {Delivered(payload, S(Secret)) : payload \in WebhookPayloads}
        \cup {Delivered(W_answered, S(<<"z">>))}

R_cdr ==
    [call_id |-> S(c1), type |-> S(<<"I", "n", "b", "o", "u", "n", "d">>),
     src |-> S(<<"0", "5", "5", "5", "1">>), dst |-> S(<<"2", "0", "1">>),
     status |-> S(<<"A", "N", "S", "W", "E", "R", "E", "D">>),
     duration |-> S(<<"7">>), recording_url |-> S(<<"v">>)]

R_short == [id |-> S(c1), dst |-> S(<<"0", "5", "5", "5", "2">>), duration |-> I(-3), ext |-> S(<<"2", "0", "1">>)]

SyncRows == {R_cdr, R_short}

\* the inputs of an upsert, by path
Inputs(path) == IF path = "webhook" THEN Deliveries ELSE SyncRows

\* the settings document as the administrator saved it
InitSettings(ignore_internal_calls, create_lead_if_not_found) ==
    [enabled |-> 1,
     debug_webhook |-> 0,
     pbx_base_url |-> <<"h">>,
     webhook_secret |-> S(Secret),
     phone_country_code |-> S(<<"+", "9", "6", "6">>),
     ignore_internal_calls |-> ignore_internal_calls,
     create_lead_if_not_found |-> create_lead_if_not_found,
     enable_sync_jobs |-> 1,
     sync_extensions |-> 1,
     page_size |-> 2,
     access_token |-> <<>>,
     refresh_token |-> <<>>,
     token_expires_at_ts |-> 0,
     last_sync_at_ts |-> 0,
     sync_from_ts |-> 0]

\* the agents the administrator linked to users
InitAgents ==
    << [extension |-> S(<<"2", "0", "1">>), agent_name |-> S(<<"A">>), user |-> S(<<"u", "1">>)] >>

IdleProc == [pc |-> "idle", path |-> "", input |-> <<>>, at |-> 0, begun |-> <<>>]

\* the sync job before its first run: where it stands, the page it is to request, its
\* window (-1: none fixed), the cursor it found when it started, the exceptions raised
\* in it, the runs started so far, and how the run before ended and where its window
\* started and ended
IdleRun == [pc |-> "idle", page |-> 1, start_ts |-> -1, end_ts |-> -1, cursor0 |-> 0,
            raised |-> 0, n |-> 0, last |-> "none", last_start |-> -1, last_end |-> -1]

\* a caller of ensure_token() before its call: the client variant it uses, where it
\* stands, the requests it sent, the token it got back; when it made its check, the
\* token and expiry it saw then and the requests the PBX had answered; the request whose answer it stored (via), when it
\* stored it, the lifetimes that answer named, and the expiry it wrote
IdleCaller(client) ==
    [client |-> client, pc |-> "idle", sent |-> 0, token |-> <<>>,
     at |-> 0, saw_token |-> <<>>, saw_expiry |-> 0, saw_requests |-> 0,
     via |-> "none", stored_at |-> 0, access_token_expire_time |-> 0, expires_in |-> 0,
     wrote_expiry |-> 0]

\* the PBX: the tokens it issued and the token requests it answered
IdlePbx == [issued |-> 0, requests |-> 0]

\* concurrent callers of ensure_token()
NumCallers == 2

Callers == 1..NumCallers

Stores == [calls |-> calls, leads |-> leads, agents |-> agents]

(***************************************************************************)
(* The upserts, one at a time (the webhook worker and the sync job never   *)
(* overlapping)                                                            *)
(***************************************************************************)
InitUpsert ==
    /\ settings \in {InitSettings(ii, cl) : ii \in {0, 1}, cl \in {0, 1}}
    /\ now = 0
    /\ calls = <<>>
    /\ leads = <<>>
    /\ agents = InitAgents
    /\ hist = <<>>
    /\ proc = [p \in Procs |-> IdleProc]
    /\ run = IdleRun
    /\ reqLog = <<>>
    /\ caller = [c \in Callers |-> IdleCaller("pseries")]
    /\ pbx = IdlePbx
    /\ webhook_log = <<>>

\* time passes
Tick ==
    /\ now < MaxNow
    /\ now' = now + 1
    /\ UNCHANGED <<settings, calls, leads, agents, hist, proc, run, reqLog, caller, pbx, webhook_log>>

\* one upsert from start to end
UpsertAction(path, input) ==
    /\ Len(hist) < MaxDeliveries
    /\ calls' = Upsert(path, input, settings, now, Stores).calls
    /\ leads' = Upsert(path, input, settings, now, Stores).leads
    /\ hist' = Append(hist, HistEntry(path, input, now,
                                      Begin(path, input, settings, now, Stores), Stores))
    /\ webhook_log' = webhook_log \o Logged(path, input, settings,
                                             Begin(path, input, settings, now, Stores))
    /\ UNCHANGED <<settings, now, agents, proc, run, reqLog, caller, pbx>>

\* webhook(): one delivery handled
Webhook == \E delivery \in Deliveries : UpsertAction("webhook", delivery)

\* upsert_call_log(row, settings): one row of a fetched page handled
UpsertCallLog == \E row \in SyncRows : UpsertAction("sync", row)

NextUpsert == Tick \/ Webhook \/ UpsertCallLog

SpecUpsert == InitUpsert /\ [][NextUpsert]_vars

(***************************************************************************)
(* The upserts, overlapping: each handler stops between lookup and write   *)
(***************************************************************************)
\* a handler runs its upsert up to the lookup
BeginUpsert(p, path, input) ==
    /\ proc[p].pc = "idle"
    /\ path = "sync" => \A q \in Procs : ~(proc[q].pc = "write" /\ proc[q].path = "sync")
    /\ LET begun == Begin(path, input, settings, now, Stores)
       IN  /\ proc' = [proc EXCEPT ![p] = [pc |-> IF begun.result = "lookedup" THEN "write"
                                                   ELSE "done",
                                           path |-> path, input |-> input, at |-> now,
                                           begun |-> begun]]
           /\ leads' = IF begun.result = "lookedup" /\ path = "webhook"
                       THEN begun.look.leads ELSE leads
           /\ hist' = IF begun.result = "lookedup" THEN hist
                      ELSE Append(hist, HistEntry(path, input, now, begun, Stores))
           /\ webhook_log' = webhook_log \o Logged(path, input, settings, begun)
    /\ UNCHANGED <<settings, now, calls, agents, run, reqLog, caller, pbx>>

\* the handler writes: insert when its lookup found nothing, else merge and save
FinishUpsert(p) ==
    /\ proc[p].pc = "write"
    /\ calls' = WriteCallLog(calls, proc[p].begun.look.existing, proc[p].begun.look.doc_data)
    /\ hist' = Append(hist, HistEntry(proc[p].path, proc[p].input, proc[p].at,
                                      proc[p].begun, Stores))
    /\ proc' = [proc EXCEPT ![p].pc = "done"]
    /\ UNCHANGED <<settings, now, leads, agents, run, reqLog, caller, pbx, webhook_log>>

RaceWebhook == \E p \in Procs, delivery \in Deliveries : BeginUpsert(p, "webhook", delivery)

RaceUpsertCallLog == \E p \in Procs, row \in SyncRows : BeginUpsert(p, "sync", row)

RaceWrite == \E p \in Procs : FinishUpsert(p)

NextRace == Tick \/ RaceWebhook \/ RaceUpsertCallLog \/ RaceWrite

SpecRace == InitUpsert /\ [][NextRace]_vars

(***************************************************************************)
(* The sync job (sync.py run): one step per page it requests               *)
(***************************************************************************)
\* runs per behaviour
MaxRuns == 2

\* pages per loop the model follows
MaxPage == 3

\* seconds that pass per behaviour
MaxElapsed == 1

\* the time the model starts at
Epoch == 90000

\* a token response: the transport failed, the status was 300 or above, or it is a body
TokenResponse(kind, errcode, has_token, access_token_expire_time, expires_in, has_refresh) ==
    [kind |-> kind, errcode |-> errcode, has_token |-> has_token,
     access_token_expire_time |-> access_token_expire_time, expires_in |-> expires_in,
     has_refresh |-> has_refresh]

\* the token responses the PBX gives the sync job
SyncTokenResponses ==
    {TokenResponse("ok", I(0), TRUE, 0, 0, FALSE),
     TokenResponse("http", None, FALSE, 0, 0, FALSE)}

\* a page response with a body: the rows under "data", or under "list" inside "data"
Page(shape, rows, total) ==
    [kind |-> "ok",
     payload |-> [isdict |-> shape # "bare",
                  d |-> (IF shape = "nested" THEN [k \in {"data"} |-> PDict([j \in {"list"} |-> PList(rows)])]
                         ELSE [k \in {"data"} |-> PList(rows)])
                        @@ (IF total = 0 THEN <<>> ELSE [k \in {"total"} |-> PInt(total)])]]

FailedPage(kind) == [kind |-> kind, payload |-> [isdict |-> FALSE, d |-> <<>>]]

E_201 == [extension |-> S(<<"2", "0", "1">>), name |-> S(<<"B">>)]

E_202 == [number |-> I(202)]

\* the rows a page of a loop may bring
PageRows(loop) ==
    IF loop = "extensions" THEN {<<>>, <<E_201>>, <<E_201, E_202>>}
    ELSE {<<>>, <<R_cdr>>, <<R_cdr, R_short>>}

PageResponses(loop) ==
    {Page("data", rows, total) : rows \in PageRows(loop), total \in {0, 3}}
    \cup {Page("nested", rows, 0) : rows \in PageRows(loop) \ {<<>>}}
    \cup {Page("bare", <<>>, 0), FailedPage("transport"), FailedPage("http")}

\* the stores after the loop upserted the first k of the rows
RECURSIVE UpsertRows(_, _, _, _, _, _)
UpsertRows(loop, rows, k, s, t, st) ==
    IF k = 0 THEN st
    ELSE LET before == UpsertRows(loop, rows, k - 1, s, t, st)
         IN  IF loop = "extensions"
             THEN [before EXCEPT !.agents = upsert_agent_from_extension(rows[k], before.agents)]
             ELSE Upsert("sync", rows[k], s, t, before)

\* a run that carries on to its end when a step raises
OnExceptionCarryOn == "end"

\* run() catches nothing: an exception in a step ends the run there
OnException == "failed"

\* the entry the request log keeps of a page request
LogEntryOf(page, kind, items, total) ==
    [page |-> page, kind |-> IF kind = "ok" THEN "ok" ELSE "failed", got |-> Len(items),
     has_total |-> total.t = "int", total |-> total.i]

LogEntry(page, resp) ==
    LogEntryOf(page, resp.kind, _extract_items(resp.payload), TotalOf(resp.payload))

\* what a pass through the body of a loop leaves: whether the loop goes on ("more"),
\* ends ("end") or raised, and the settings, the PBX, the stores and the log entry
PassResult(next, raised, tok, st, log) ==
    [next |-> next, raised |-> raised, settings |-> tok.settings, pbx |-> tok.pbx,
     stores |-> st, log |-> log]

\* the rest of a pass, the page being there: the upserts of its rows (the failAt-th
\* raising) and the decision to go on
AfterPage(loop, tok, t, st, page, page_size, resp, items, failAt, log) ==
    IF failAt \in 1..Len(items)
    THEN PassResult(OnException, 1, tok, UpsertRows(loop, items, failAt - 1, tok.settings, t, st), log)
    ELSE PassResult(IF items # <<>> /\ _has_more(resp.payload, page, page_size, Len(items))
                    THEN "more" ELSE "end",
                    0, tok, UpsertRows(loop, items, Len(items), tok.settings, t, st), log)

\* the rest of a pass, ensure_token() having answered tok: the request for the page
AfterToken(loop, tok, t, st, page, page_size, resp, failAt) ==
    IF ~tok.ok THEN PassResult(OnException, 1, tok, st, <<>>)
    ELSE IF resp.kind # "ok" THEN PassResult(OnException, 1, tok, st, <<LogEntry(page, resp)>>)
    ELSE AfterPage(loop, tok, t, st, page, page_size, resp, _extract_items(resp.payload), failAt,
                   <<LogEntry(page, resp)>>)

\* one pass through the body of a loop (sync_extensions, sync_call_logs): the token
\* for the request (answered by rs), the request for the page (answered by resp), the
\* upserts of its rows (the failAt-th raising), and the decision to go on
LoopPass(loop, s, t, st, px, page, rs, resp, failAt) ==
    AfterToken(loop, ensure_token("pseries", s, t, px, rs), t, st, page,
               IF s.page_size # 0 THEN s.page_size ELSE 100, resp, failAt)

InitSync ==
    /\ settings \in {[InitSettings(0, 0) EXCEPT !.enable_sync_jobs = e, !.sync_extensions = x,
                                                !.pbx_base_url = u, !.last_sync_at_ts = c] :
                        e \in {0, 1}, x \in {0, 1}, u \in {<<>>, <<"h">>}, c \in {0, 700}}
    /\ now = Epoch
    /\ calls = <<>>
    /\ leads = <<>>
    /\ agents = InitAgents
    /\ hist = <<>>
    /\ proc = [p \in Procs |-> IdleProc]
    /\ run = IdleRun
    /\ reqLog = <<>>
    /\ caller = [c \in Callers |-> IdleCaller("pseries")]
    /\ pbx = IdlePbx
    /\ webhook_log = <<>>

\* time passes
SyncTick ==
    /\ now < Epoch + MaxElapsed
    /\ now' = now + 1
    /\ UNCHANGED <<settings, calls, leads, agents, hist, proc, run, reqLog, caller, pbx, webhook_log>>

\* the scheduler calls run(): it returns at once when the job is switched off, fails
\* when the client cannot be built, else enters its first loop
StartRun ==
    /\ run.pc \in {"idle", "off", "done", "failed"}
    /\ run.n < MaxRuns
    /\ run' = [run EXCEPT !.n = @ + 1, !.page = 1, !.cursor0 = settings.last_sync_at_ts,
                          !.last = run.pc, !.last_start = run.start_ts, !.last_end = run.end_ts,
                          !.start_ts = -1, !.end_ts = -1,
                          !.raised = IF settings.enable_sync_jobs # 0 /\ settings.pbx_base_url = <<>>
                                     THEN 1 ELSE 0,
                          !.pc = IF settings.enable_sync_jobs = 0 THEN "off"
                                 ELSE IF settings.pbx_base_url = <<>> THEN OnException
                                 ELSE IF settings.sync_extensions # 0 THEN "extensions"
                                 ELSE "call_logs_begin"]
    /\ reqLog' = <<>>
    /\ UNCHANGED <<settings, now, calls, leads, agents, hist, proc, caller, pbx, webhook_log>>

\* sync_call_logs starts: it fixes its window
BeginCallLogs ==
    /\ run.pc = "call_logs_begin"
    /\ run' = [run EXCEPT !.pc = "call_logs", !.page = 1,
                          !.start_ts = _get_time_window(settings, now)[1],
                          !.end_ts = _get_time_window(settings, now)[2]]
    /\ reqLog' = <<>>
    /\ UNCHANGED <<settings, now, calls, leads, agents, hist, proc, caller, pbx, webhook_log>>

\* the state after a pass through the body of a loop
ApplyPass(pass) ==
    /\ settings' = pass.settings
    /\ pbx' = pass.pbx
    /\ calls' = pass.stores.calls
    /\ leads' = pass.stores.leads
    /\ agents' = pass.stores.agents
    /\ reqLog' = reqLog \o pass.log
    /\ run' = [run EXCEPT
                 !.raised = @ + pass.raised,
                 !.page = IF pass.next = "more" THEN @ + 1 ELSE @,
                 !.pc = CASE pass.next = "more" -> @
                          [] pass.next = "end" ->
                               IF @ = "extensions" THEN "call_logs_begin" ELSE "finish"
                          [] OTHER -> pass.next]

\* a loop requests its next page and deals with it
FetchPage ==
    /\ run.pc \in {"extensions", "call_logs"}
    /\ run.page <= MaxPage
    /\ \E r \in IF _token_valid(settings, now) THEN {CHOOSE x \in SyncTokenResponses : TRUE}
                  ELSE SyncTokenResponses,
          resp \in PageResponses(run.pc) :
       \E failAt \in 0..Len(_extract_items(resp.payload)) :
          ApplyPass(LoopPass(run.pc, settings, now, Stores, pbx, run.page, <<r, r, r>>, resp, failAt))
    /\ UNCHANGED <<now, hist, proc, caller, webhook_log>>

\* both loops are through: run() moves the cursor to the present
FinishRun ==
    /\ run.pc = "finish"
    /\ settings' = [settings EXCEPT !.last_sync_at_ts = now]
    /\ run' = [run EXCEPT !.pc = "done"]
    /\ UNCHANGED <<now, calls, leads, agents, hist, proc, reqLog, caller, pbx, webhook_log>>

NextSync == SyncTick \/ StartRun \/ BeginCallLogs \/ FetchPage \/ FinishRun

SpecSync == InitSync /\ [][NextSync]_vars

(***************************************************************************)
(* The callers of ensure_token(): workers that share the stored token, each *)
(* stopping while its request is with the PBX                              *)
(***************************************************************************)
\* the answers the PBX gives to a token request
TokenResponses ==
    {TokenResponse("ok", I(0), TRUE, a, e, FALSE) : a \in {0, 61}, e \in {0, 62}}
    \cup {TokenResponse("ok", S(<<"0">>), TRUE, 0, 0, TRUE),
          TokenResponse("ok", I(10004), TRUE, 61, 0, FALSE),
          TokenResponse("ok", I(0), FALSE, 0, 0, FALSE),
          TokenResponse("transport", None, FALSE, 0, 0, FALSE),
          TokenResponse("http", None, FALSE, 0, 0, FALSE)}

\* the token, its expiry and the refresh token the settings hold at the start
StoredTokens ==
    {[access_token |-> <<>>, token_expires_at_ts |-> 0, refresh_token |-> <<>>],
     [access_token |-> AccessToken(0), token_expires_at_ts |-> 0, refresh_token |-> <<>>]}
    \cup {[access_token |-> AccessToken(0), token_expires_at_ts |-> Epoch + x, refresh_token |-> rt] :
             x \in {RefreshMargin, RefreshMargin + 1}, rt \in {<<>>, RefreshToken(0)}}

InitToken ==
    /\ settings \in {[InitSettings(0, 0) EXCEPT !.access_token = st.access_token,
                                                !.token_expires_at_ts = st.token_expires_at_ts,
                                                !.refresh_token = st.refresh_token] :
                        st \in StoredTokens}
    /\ now = Epoch
    /\ calls = <<>>
    /\ leads = <<>>
    /\ agents = InitAgents
    /\ hist = <<>>
    /\ proc = [p \in Procs |-> IdleProc]
    /\ run = IdleRun
    /\ reqLog = <<>>
    /\ \E client \in {"pseries", "oauth"} : caller = [c \in Callers |-> IdleCaller(client)]
    /\ pbx = IdlePbx
    /\ webhook_log = <<>>

\* time passes
TokenTick ==
    /\ now < Epoch + MaxElapsed
    /\ now' = now + 1
    /\ UNCHANGED <<settings, calls, leads, agents, hist, proc, run, reqLog, caller, pbx, webhook_log>>

\* a caller enters ensure_token(): it returns the stored token, or sends a request
Call(c) ==
    /\ caller[c].pc = "idle"
    /\ LET start == EnsureStart(caller[c].client, settings, now)
       IN  caller' = [caller EXCEPT ![c].at = now,
                                    ![c].saw_token = settings.access_token,
                                    ![c].saw_expiry = settings.token_expires_at_ts,
                                    ![c].saw_requests = pbx.requests,
                                    ![c].pc = IF start = "cached" THEN "returned" ELSE start,
                                    ![c].sent = IF start = "cached" THEN 0 ELSE 1,
                                    ![c].token = IF start = "cached" THEN settings.access_token
                                                 ELSE <<>>]
    /\ UNCHANGED <<settings, now, calls, leads, agents, hist, proc, run, reqLog, pbx, webhook_log>>

\* the PBX answers a caller's request: the caller stores the token and returns it,
\* sends its next request, or raises
Respond(c) ==
    /\ caller[c].pc \in InFlight
    /\ \E r \in TokenResponses :
          LET me == caller[c]
              next == AfterResponse(me.client, me.pc, r)
              stored == StoreToken(me.client, me.pc, settings, now, pbx, r)
          IN  /\ pbx' = PbxAfter(me.client, pbx, r)
              /\ settings' = IF next = "stored" THEN stored ELSE settings
              /\ caller' = [caller EXCEPT ![c] =
                    IF next = "stored"
                    THEN [me EXCEPT !.pc = "returned", !.token = AccessToken(pbx.issued + 1),
                                    !.via = me.pc, !.stored_at = now,
                                    !.access_token_expire_time = r.access_token_expire_time,
                                    !.expires_in = r.expires_in,
                                    !.wrote_expiry = stored.token_expires_at_ts]
                    ELSE IF next = "raised" THEN [me EXCEPT !.pc = "raised"]
                    ELSE [me EXCEPT !.pc = next, !.sent = @ + 1]]
    /\ UNCHANGED <<now, calls, leads, agents, hist, proc, run, reqLog, webhook_log>>

NextToken == TokenTick \/ (\E c \in Callers : Call(c)) \/ (\E c \in Callers : Respond(c))

SpecToken == InitToken /\ [][NextToken]_vars

(***************************************************************************)
(* Properties of the upserts                                               *)
(***************************************************************************)
InitStores == [calls |-> <<>>, leads |-> <<>>, agents |-> InitAgents]

\* the stores after the upserts of a history, applied in order to the empty stores
RECURSIVE Replay(_)
Replay(h) ==
    IF h = <<>> THEN InitStores
    ELSE LET e == h[Len(h)]
         IN  Upsert(e.path, e.input, settings, e.at, Replay(SubSeq(h, 1, Len(h) - 1)))

\* the fields an upsert brings, when applied to the stores st
Incoming(e, st) == Begin(e.path, e.input, settings, e.at, st).look.doc_data

\* the last two upserts of the history
EntryA == hist[Len(hist) - 1]

EntryB == hist[Len(hist)]

\* the last two upserts wrote the same document
LastTwoWroteOneDoc ==
    /\ Len(hist) >= 2
    /\ EntryA.result = "stored"
    /\ EntryB.result = "stored"
    /\ EntryA.name = EntryB.name

\* the stores before the last two upserts, and before the last one
StoresBeforeA == Replay(SubSeq(hist, 1, Len(hist) - 2))

StoresBeforeB == Replay(SubSeq(hist, 1, Len(hist) - 1))

\* the stores had the last two upserts come in the other order
Swapped(before) ==
    Upsert(EntryA.path, EntryA.input, settings, EntryB.at,
           Upsert(EntryB.path, EntryB.input, settings, EntryA.at, before))

\* C2: after any interleaving of concurrent upserts for one call_id, the store holds
\* exactly one call log with that call_id: lookup-then-insert never makes two.
C2_OneRecordPerCallId ==
    \A m, n \in DOMAIN calls : calls[m]["call_id"] = calls[n]["call_id"] => m = n

\* C3 as claimed: upsert(A); upsert(B) and upsert(B); upsert(A) leave the same value in
\* every field other than status, raw_payload and last_event_at.
C3_OrderIndependent ==
    LastTwoWroteOneDoc =>
        LET swapped == Swapped(StoresBeforeA).calls
            docBA == swapped[FindBy(swapped, "call_id", EntryB.call_id)]
        IN  \A f \in DocFields \ AlwaysFresh : calls[EntryB.name][f] = docBA[f]

\* C3 as amended: the two orders leave the same value in every such field in which A
\* and B do not bring two different non-empty values; where both bring an empty
\* value the field ends empty (None, "" or 0) in either order.
C3_OrderIndependentUnlessBothSet ==
    LastTwoWroteOneDoc =>
        LET before == StoresBeforeA
            swapped == Swapped(before).calls
            docBA == swapped[FindBy(swapped, "call_id", EntryB.call_id)]
            docAB == calls[EntryB.name]
            broughtA == Incoming(EntryA, before)
            broughtB == Incoming(EntryB, Upsert(EntryA.path, EntryA.input, settings,
                                                EntryA.at, before))
        IN  \A f \in DocFields \ AlwaysFresh :
                ~(/\ Truthy(Get(broughtA, f))
                  /\ Truthy(Get(broughtB, f))
                  /\ Get(broughtA, f) # Get(broughtB, f))
                    => \/ docAB[f] = docBA[f]
                       \/ IsEmptyValue(docAB[f]) /\ IsEmptyValue(docBA[f])

\* two upserts of one call by the two paths, each bringing a value the other lacks
C3_Witness ==
    /\ LastTwoWroteOneDoc
    /\ Len(hist) = 2
    /\ EntryA.path # EntryB.path
    /\ LET broughtA == Incoming(EntryA, InitStores)
           broughtB == Incoming(EntryB, StoresBeforeB)
       IN  /\ \E f \in DocFields \ AlwaysFresh :
                  Truthy(Get(broughtA, f)) /\ IsEmptyValue(Get(broughtB, f))
           /\ \E f \in DocFields \ AlwaysFresh :
                  IsEmptyValue(Get(broughtA, f)) /\ Truthy(Get(broughtB, f))

\* the same event was upserted twice in a row
SameEventTwice ==
    /\ Len(hist) >= 2
    /\ EntryA.path = EntryB.path
    /\ EntryA.input = EntryB.input
    /\ EntryA.result \in {"stored", "skipped"}

RecordsOf(call_id) == {n \in DOMAIN calls : calls[n]["call_id"] = call_id}

\* C4 as claimed: upserting the same event twice leaves exactly one record for its
\* call_id, and the record after the second upsert is the record after the first.
C4_Idempotent ==
    SameEventTwice =>
        /\ Cardinality(RecordsOf(EntryB.call_id)) = 1
        /\ EntryB.result = "stored"
        /\ calls[EntryB.name] = StoresBeforeB.calls[EntryA.name]

\* C4 as amended: for an event the internal-call policy does not skip, there is exactly
\* one record and the second upsert changes nothing in it but last_event_at.
C4_IdempotentButTimestamp ==
    SameEventTwice /\ EntryA.result = "stored" =>
        /\ Cardinality(RecordsOf(EntryB.call_id)) = 1
        /\ EntryB.result = "stored"
        /\ EntryB.name = EntryA.name
        /\ LET docAfterFirst == StoresBeforeB.calls[EntryA.name]
           IN  \A f \in DocFields \ {"last_event_at"} :
                   calls[EntryB.name][f] = docAfterFirst[f]

\* the same event stored twice, the clock having moved in between
C4_Witness ==
    /\ SameEventTwice
    /\ EntryA.result = "stored"
    /\ EntryB.result = "stored"
    /\ EntryA.at < EntryB.at

\* C5: a merge never changes a field outside the always-fresh set that was non-empty
\* before it, whatever the incoming value is.
C5_NeverDowngrades ==
    [][\A n \in DOMAIN calls : \A f \in DocFields \ {"last_event_at", "raw_payload", "status"} :
           Truthy(calls[n][f]) => calls'[n][f] = calls[n][f]]_vars

\* a merge met a non-empty stored field with a different non-empty incoming value, and
\* another non-empty stored field with an empty incoming value
C5_Witness ==
    /\ LastTwoWroteOneDoc
    /\ LET docAfterFirst == StoresBeforeB.calls[EntryA.name]
           broughtB == Incoming(EntryB, StoresBeforeB)
       IN  /\ \E f \in DocFields \ AlwaysFresh :
                  /\ Truthy(docAfterFirst[f])
                  /\ Truthy(Get(broughtB, f))
                  /\ Get(broughtB, f) # docAfterFirst[f]
           /\ \E f \in DocFields \ AlwaysFresh :
                  Truthy(docAfterFirst[f]) /\ IsEmptyValue(Get(broughtB, f))

\* the positions in the history of the upserts for a call_id, among the given results
EntriesFor(call_id, results) ==
    {k \in DOMAIN hist : hist[k].call_id = call_id /\ hist[k].result \in results}

SetMax(set) == CHOOSE k \in set : \A j \in set : j <= k

SetMin(set) == CHOOSE k \in set : \A j \in set : k <= j

DeliveredEvent(k) == _extract_event(hist[k].input.payload)

\* for a call that only webhook deliveries touched: the stored status is that of the
\* last of the deliveries counted, and the recording URL is the first one they brought
StatusAndRecordingFollow(results) ==
    \A n \in DOMAIN calls :
        LET all == EntriesFor(calls[n]["call_id"], {"stored", "skipped"})
            counted == EntriesFor(calls[n]["call_id"], results)
            withUrl == {k \in counted : Truthy(DeliveredEvent(k).recording_url)}
        IN  (\A k \in all : hist[k].path = "webhook") =>
                /\ calls[n]["status"] = DeliveredEvent(SetMax(counted)).status
                /\ withUrl # {} =>
                       calls[n]["recording_url"] = DeliveredEvent(SetMin(withUrl)).recording_url

\* C6 as claimed: after any sequence of webhook deliveries for one call_id the stored
\* status is that of the most recent delivery, and a recording URL a later delivery
\* brings is stored when the earlier ones brought none.
C6_StatusOfLastDelivery == StatusAndRecordingFollow({"stored", "skipped"})

\* C6 as amended: the same, counting the deliveries that were persisted, not those
\* the internal-call policy skipped.
C6_StatusOfLastPersisted == StatusAndRecordingFollow({"stored"})

\* first "ringing" without a recording, then "answered" with one
C6_Witness ==
    /\ Len(hist) = 2
    /\ hist[1].input = Delivered(W_ring, S(Secret))
    /\ hist[2].input = Delivered(W_answered, S(Secret))
    /\ hist[1].result = "stored"
    /\ Len(calls) = 1
    /\ calls[1]["status"] = S(<<"a", "n", "s", "w", "e", "r", "e", "d">>)
    /\ calls[1]["recording_url"] = S(<<"u">>)


(***************************************************************************)
(* Properties of the sync job                                              *)
(***************************************************************************)
\* the run is where only an error-free pass through both loops takes it
CursorOnlyAtTheEnd ==
    run.n > 0 =>
        /\ run.pc # "done" => settings.last_sync_at_ts = run.cursor0
        /\ run.raised > 0 => settings.last_sync_at_ts = run.cursor0 /\ run.pc # "done"
        /\ run.pc = "done" => settings.last_sync_at_ts >= run.end_ts /\ run.end_ts # -1

\* this run and the failed run before it both fixed a window
RetriesAFailedRun == run.last = "failed" /\ run.last_start # -1 /\ run.start_ts # -1

\* C7 as claimed: the cursor is written only at the end of a run in which nothing
\* raised, a run in which something raised leaves it as it was, and the run after a
\* failed run starts its window where the failed run started its own.
C7_CursorAndSameWindow ==
    /\ CursorOnlyAtTheEnd
    /\ RetriesAFailedRun => run.start_ts = run.last_start

\* C7, amended: the cursor is written only at the end of a run in which nothing raised,
\* a run in which something raised leaves it as it was, and the run after a failed run
\* starts its window where the failed run started its own whenever the cursor or
\* sync_from_ts is set; with neither set each window starts 24 h and 10 min before the
\* run's own clock.
C7_CursorAndSameWindowWhenSet ==
    /\ CursorOnlyAtTheEnd
    /\ RetriesAFailedRun =>
          IF run.cursor0 # 0 \/ settings.sync_from_ts # 0
          THEN run.start_ts = run.last_start
          ELSE run.start_ts = run.end_ts - DefaultReach - Overlap

\* a run that failed after it fixed its window left the cursor alone, and the next run
\* started at the same place, came through and moved the cursor
C7_Witness ==
    /\ RetriesAFailedRun
    /\ run.cursor0 = 700
    /\ run.start_ts = run.last_start
    /\ run.pc = "done"
    /\ settings.last_sync_at_ts = now
    /\ now > Epoch

\* C8: a pagination loop stops after a bounded number of page requests whatever the
\* upstream answers: there is a page number it never goes beyond (here: the last page
\* the model follows).
C8_PageCeiling == run.pc \in {"extensions", "call_logs"} => run.page <= MaxPage

\* the loop the request log belongs to has ended, nothing having raised
LoopEnded ==
    /\ run.raised = 0
    /\ \/ run.pc = "call_logs_begin" /\ settings.sync_extensions # 0
       \/ run.pc \in {"finish", "done"}

\* no response of the loop stated a total
NoTotals == \A k \in DOMAIN reqLog : reqLog[k].kind = "ok" /\ ~reqLog[k].has_total

\* page 1 came full and page 2 partial
FullThenPartial ==
    /\ Len(reqLog) >= 2
    /\ reqLog[1].got = settings.page_size
    /\ reqLog[2].got \in 1..(settings.page_size - 1)

\* C9 as claimed: with no totals the loop goes on until a page comes empty; after a
\* full page 1 and a partial page 2 it makes exactly 3 requests, the third one empty.
C9_UntilEmptyPage ==
    LoopEnded /\ NoTotals =>
        /\ reqLog # <<>>
        /\ reqLog[Len(reqLog)].got = 0
        /\ FullThenPartial => Len(reqLog) = 3

\* C9, amended: with no totals the loop goes on for as long as pages come full and
\* stops at the first page with fewer than page_size items, empty or not; after a full
\* page 1 and a partial page 2 it has made exactly 2 requests.
C9_UntilShortPage ==
    NoTotals =>
        /\ run.pc \in {"extensions", "call_logs"} =>
              /\ Len(reqLog) = run.page - 1
              /\ \A k \in DOMAIN reqLog : reqLog[k].got = settings.page_size
        /\ LoopEnded =>
              /\ reqLog # <<>>
              /\ reqLog[Len(reqLog)].got < settings.page_size
              /\ \A k \in 1..(Len(reqLog) - 1) : reqLog[k].got = settings.page_size
              /\ FullThenPartial => Len(reqLog) = 2

\* sync_call_logs got a full page 1 and a partial page 2, no totals, and is through
C9_Witness ==
    /\ run.pc = "finish"
    /\ NoTotals
    /\ FullThenPartial
    /\ Len(reqLog) = 2

(***************************************************************************)
(* Properties of the token                                                 *)
(***************************************************************************)
\* when the caller made its check, a token was stored and the time was more than 60
\* seconds before its expiry
SawValid(c) ==
    caller[c].saw_token # <<>> /\ caller[c].at + RefreshMargin < caller[c].saw_expiry

\* C1: when every caller entered ensure_token() with no valid token stored and before
\* the PBX had answered any of them, the PBX gets exactly one token request and every
\* caller returns the token of that one exchange.
C1_SingleExchange ==
    (\A c \in Callers : /\ caller[c].pc = "returned"
                        /\ ~SawValid(c)
                        /\ caller[c].saw_requests = 0)
    => /\ pbx.requests = 1
       /\ \A c, d \in Callers : caller[c].token = caller[d].token

\* the caller is through its check, and took the cached path exactly when it saw a
\* valid token, returning that token; a caller that returned from an exchange returned
\* a token other than the one it saw
CachedIffValid(c) ==
    caller[c].pc # "idle" =>
        /\ caller[c].sent = 0 <=> SawValid(c)
        /\ caller[c].sent = 0 => caller[c].pc = "returned" /\ caller[c].token = caller[c].saw_token
        /\ caller[c].sent > 0 /\ caller[c].pc = "returned" =>
              /\ caller[c].token # <<>>
              /\ caller[c].token # caller[c].saw_token
              /\ caller[c].via \in InFlight

\* the caller returned from an exchange
Exchanged(c) == caller[c].pc = "returned" /\ caller[c].sent > 0

\* the lifetimes named by the answer the caller stored, in the fields its client knows
NamedLifetimes(c) ==
    IF caller[c].client = "oauth" THEN {caller[c].expires_in} \ {0}
    ELSE {caller[c].access_token_expire_time, caller[c].expires_in} \ {0}

\* C10: ensure_token() returns the cached token without a request exactly
\* when a token is stored and the time is more than 60 seconds before its expiry;
\* otherwise it exchanges and returns the new token, and the expiry it stores is the
\* time of the exchange plus the lifetime the answer named.
C10_ExpiryFromAnswer ==
    \A c \in Callers :
        /\ CachedIffValid(c)
        /\ Exchanged(c) /\ NamedLifetimes(c) # {} =>
              caller[c].wrote_expiry - caller[c].stored_at \in NamedLifetimes(c)

\* C11: within one ensure_token() call at most one request goes to a token endpoint: a
\* failed exchange makes the call raise, never send a second request.
C11_OneAttempt ==
    \A c \in Callers :
        /\ caller[c].sent <= 1
        /\ caller[c].pc \notin {"get_in_refresh", "get_retry"}

(***************************************************************************)
(* The endpoint and the row upsert under the settings an administrator may *)
(* have saved: with or without a webhook secret, with or without a country *)
(* code, the internal-call policy on or off                                *)
(***************************************************************************)
W_c20 ==
    [call_id |-> S(c1), direction |-> S(<<"i", "n", "b", "o", "u", "n", "d">>),
     from |-> S(<<"0", "5", "5", "5", "1", "2", "3", "4", "5", "6">>),
     to |-> S(<<"1", "1", "2">>),
     status |-> S(<<"a", "n", "s", "w", "e", "r", "e", "d">>)]

\* a call between two extensions of four digits
W_ext4 ==
    [call_id |-> S(<<"c", "4">>), from |-> S(<<"2", "0", "1", "5">>),
     to |-> S(<<"2", "0", "1", "6">>), status |-> S(<<"b", "u", "s", "y">>)]

\* a delivery with its two secret headers
Posted(payload, x_yeastar_secret, x_webhook_secret) ==
    [x_yeastar_secret |-> x_yeastar_secret, x_webhook_secret |-> x_webhook_secret,
     payload |-> payload]

\* the places a delivery may carry a secret in, right or wrong
SecretPlacements ==
    {Posted(W_c20, None, None),
     Posted(W_c20, S(<<" ", "k">>), None),
     Posted(W_c20, None, S(Secret)),
     Posted(W_c20, S(<<"z">>), S(Secret)),
     Posted(W_c20 @@ [secret |-> S(Secret)], None, None),
     Posted(W_c20 @@ [webhook_secret |-> S(Secret)], None, None),
     Posted(W_c20 @@ [secret |-> S(<<"z">>), webhook_secret |-> S(Secret)], None, None)}

IngestDeliveries ==
    {Posted(payload, S(Secret), None) : payload \in {W_c20, W_ring, W_internal, W_ext4}}
        \cup SecretPlacements

\* a row of the call-log listing for a call between two extensions
R_internal ==
    [call_id |-> S(<<"c", "2">>), src |-> S(<<"2", "0", "1">>), dst |-> S(<<"2", "0", "5">>),
     status |-> S(<<"A", "N", "S", "W", "E", "R", "E", "D">>)]

IngestRows == {R_cdr, R_internal}

InitIngest ==
    /\ settings \in {[InitSettings(ii, 0) EXCEPT !.webhook_secret = ws,
                                                 !.phone_country_code = cc] :
                        ii \in {0, 1}, ws \in {None, S(Secret)},
                        cc \in {None, S(<<"+", "1">>)}}
    /\ now = 0
    /\ calls = <<>>
    /\ leads = <<>>
    /\ agents = InitAgents
    /\ hist = <<>>
    /\ proc = [p \in Procs |-> IdleProc]
    /\ run = IdleRun
    /\ reqLog = <<>>
    /\ caller = [c \in Callers |-> IdleCaller("pseries")]
    /\ pbx = IdlePbx
    /\ webhook_log = <<>>

\* webhook(): one delivery handled
IngestWebhook == \E delivery \in IngestDeliveries : UpsertAction("webhook", delivery)

\* upsert_call_log(row, settings): one row of a fetched page handled
IngestRow == \E row \in IngestRows : UpsertAction("sync", row)

NextIngest == IngestWebhook \/ IngestRow

SpecIngest == InitIngest /\ [][NextIngest]_vars

(***************************************************************************)
(* Properties of the endpoint                                              *)
(***************************************************************************)
\* the secrets a delivery offers, in the order webhook() looks for them: the two
\* headers, then the body
Offered(delivery) ==
    << Strip(Str(Or(delivery.x_yeastar_secret, S(<<>>)))),
       Strip(Str(Or(delivery.x_webhook_secret, S(<<>>)))),
       Strip(Str(Or(Or(Get(delivery.payload, "secret"),
                       Get(delivery.payload, "webhook_secret")), S(<<>>)))) >>

\* the first of them that is not empty (<<>>: none is)
FirstOffered(delivery) ==
    LET found == {i \in 1..3 : Offered(delivery)[i] # <<>>}
    IN  IF found = {} THEN <<>> ELSE Offered(delivery)[SetMin(found)]

\* the deliveries the endpoint dealt with while it was enabled
Answered == {k \in DOMAIN hist : hist[k].path = "webhook" /\ hist[k].result # "disabled"}

Processed(k) == hist[k].result \in {"stored", "skipped"}

SecretConfigured == Truthy(settings.webhook_secret) /\ Strip(Str(settings.webhook_secret)) # <<>>

\* C12 as stated: with a secret configured a delivery is processed only if the first
\* value found among the two headers and the body keys equals it, and with no secret
\* configured every delivery is processed.
C12_SecretOptional ==
    \A k \in Answered :
        IF SecretConfigured
        THEN Processed(k) <=> FirstOffered(hist[k].input) = Strip(Str(settings.webhook_secret))
        ELSE Processed(k)

\* C12: webhook authentication is mandatory: a delivery is processed only if a secret
\* is configured and the first non-empty value found among the X-Yeastar-Secret header,
\* the X-Webhook-Secret header and the body keys secret / webhook_secret equals it; any
\* mismatch is rejected, and with no secret configured every delivery is rejected.
C12_SecretRequired ==
    \A k \in Answered :
        /\ Processed(k) <=>
              /\ SecretConfigured
              /\ FirstOffered(hist[k].input) = Strip(Str(settings.webhook_secret))
        /\ ~Processed(k) => hist[k].result = "rejected" /\ hist[k].name = 0

\* a delivery bearing the right secret was turned away for want of a configured one,
\* under settings that name no secret
C12_Witness ==
    /\ ~SecretConfigured
    /\ \E k \in Answered :
          /\ hist[k].input.x_webhook_secret = S(Secret)
          /\ hist[k].result = "rejected"

\* a short numeric extension number as the PBX delivers it: digits only, 2 to 6 of them
ShortExtension(x) == IsDigit(x) /\ 2 <= Len(x) /\ Len(x) <= 6

\* the delivery was a call between two extensions
BetweenExtensions(k) ==
    /\ ShortExtension(Str(DeliveredEvent(k).from_no))
    /\ ShortExtension(Str(DeliveredEvent(k).to_no))

\* C13: with the ignore-internal-calls flag set, every authenticated webhook delivery
\* whose from and to numbers are both short numeric extension numbers is not persisted
\* and reports skipped (no call-log id), whatever the numbers and the country code.
C13_InternalSkipped ==
    settings.ignore_internal_calls # 0 =>
        \A k \in Answered :
            hist[k].result # "rejected" /\ BetweenExtensions(k) =>
                hist[k].result = "skipped" /\ hist[k].name = 0

\* a stored call whose two endpoints both have the shape of an internal extension
InternalCall(doc) ==
    /\ _looks_ext(Str(Or(doc.from_number, S(<<>>))))
    /\ _looks_ext(Str(Or(doc.to_number, S(<<>>))))

\* C14: while the ignore-internal-calls policy is active, no call between two internal
\* extensions is ever in the call-log store, whichever path wrote it (the webhook
\* upsert or the sync job's upsert_call_log) and whatever came before.
C14_NoInternalCallStored ==
    settings.ignore_internal_calls # 0 =>
        \A n \in DOMAIN calls : ~InternalCall(calls[n])

\* the stores before and after the k-th upsert of the history
StoresBefore(k) == Replay(SubSeq(hist, 1, k - 1))

StoresAfter(k) == Replay(SubSeq(hist, 1, k))

\* the webhook deliveries that carried a call_id and were stored
StoredWithId ==
    {k \in Answered : hist[k].result = "stored" /\ Truthy(DeliveredEvent(k).call_id)}

\* the record the k-th upsert wrote, as it stood right after
RecordOf(k) == StoresAfter(k).calls[hist[k].name]

\* the k-th upsert made its record: none was there for the call_id
CreatedRecord(k) == hist[k].name > Len(StoresBefore(k).calls)

DefaultCc == Str(Or(settings.phone_country_code, S(<<"+", "9", "6", "6">>)))

\* the normalized forms of the numbers the k-th delivery carried
DeliveredNumbers(k) ==
    [from_number |-> S(normalize_phone(Str(DeliveredEvent(k).from_no), DefaultCc)),
     to_number |-> S(normalize_phone(Str(DeliveredEvent(k).to_no), DefaultCc))]

\* the scenario: call c1 from 0555123456 to 112 under +966, stored in a new record
ScenarioStored(k) ==
    /\ RecordOf(k).call_id = S(c1)
    /\ RecordOf(k).from_number = S(<<"+", "9", "6", "6", "5", "5", "5", "1", "2", "3", "4", "5", "6">>)
    /\ RecordOf(k).to_number = S(<<"+", "9", "6", "6", "1", "1", "2">>)

\* C20 as stated: a webhook delivery that carries a call_id is stored under exactly
\* that call_id, with from_number and to_number the normalized forms of the numbers
\* it delivered.
C20_StoredAsDelivered ==
    \A k \in StoredWithId :
        /\ RecordOf(k).call_id = DeliveredEvent(k).call_id
        /\ \A f \in {"from_number", "to_number"} : RecordOf(k)[f] = DeliveredNumbers(k)[f]

\* C20: a webhook delivery that carries a call_id is stored under exactly that
\* call_id; when it creates the record, from_number and to_number are the normalized
\* forms of the numbers it delivered (0555123456 and 112 under +966 are stored as
\* +966555123456 and +966112 under call_id c1); when a record for the call_id exists,
\* a number already stored stays and only a missing one is filled in.
C20_StoredAsDeliveredWhenNew ==
    \A k \in StoredWithId :
        /\ RecordOf(k).call_id = DeliveredEvent(k).call_id
        /\ \A f \in {"from_number", "to_number"} :
              RecordOf(k)[f] =
                  IF CreatedRecord(k) \/ IsEmptyValue(StoresBefore(k).calls[hist[k].name][f])
                  THEN DeliveredNumbers(k)[f]
                  ELSE StoresBefore(k).calls[hist[k].name][f]
        /\ /\ CreatedRecord(k)
           /\ hist[k].input.payload = W_c20
           /\ DefaultCc = <<"+", "9", "6", "6">>
           => ScenarioStored(k)

\* the scenario's delivery made the first record of the store, under +966
C20_Witness ==
    /\ Len(hist) >= 1
    /\ hist[1].path = "webhook"
    /\ hist[1].input.payload = W_c20
    /\ hist[1].result = "stored"
    /\ DefaultCc = <<"+", "9", "6", "6">>
    /\ Len(calls) >= 1
    /\ calls[1].from_number = S(<<"+", "9", "6", "6", "5", "5", "5", "1", "2", "3", "4", "5", "6">>)
    /\ calls[1].to_number = S(<<"+", "9", "6", "6", "1", "1", "2">>)
    /\ calls[1].call_id = S(c1)

(***************************************************************************)
(* yeastar_client.py: get and post, and the sync job fed by them           *)
(***************************************************************************)
\* an answer of the PBX to a request: the transport failed ("transport"), or
\* a status came with a body that is empty, JSON (decoded: payload) or other text
Answer(kind, status, text, payload) ==
    [kind |-> kind, status |-> status, text |-> text, payload |-> payload]

NoPayload == [isdict |-> FALSE, d |-> <<>>]

\* {}
EmptyMapping == [isdict |-> TRUE, d |-> <<>>]

\* what get() and post() hand back, or that they raised
Returned(data) == [raised |-> FALSE, data |-> data]

Raised == [raised |-> TRUE, data |-> NoPayload]

\* YeastarClient.get, _headers() having returned and the request been sent
get(answer) ==
    IF answer.kind = "transport" THEN Raised
    ELSE IF answer.status >= 300 THEN Raised
    ELSE IF answer.text = "empty" THEN Returned(EmptyMapping)
    ELSE IF answer.text = "json" THEN Returned(answer.payload)
    ELSE Raised

\* YeastarClient.post, _headers() having returned and the request been sent
post(answer) ==
    IF answer.kind = "transport" THEN Raised
    ELSE IF answer.status >= 300 THEN Raised
    ELSE IF answer.text = "empty" THEN Returned(EmptyMapping)
    ELSE IF answer.text = "json" THEN Returned(answer.payload)
    ELSE Raised

\* the body of an application-level error
ErrorBody == [isdict |-> TRUE, d |-> [k \in {"errcode"} |-> PInt(10004)]]

\* the answers the PBX gives to a request for a page of call logs, or to a post
GatewayAnswers ==
    {Answer("ok", 200, "json", Page("data", rows, 0).payload) :
        rows \in {<<R_cdr>>, <<R_cdr, R_short>>}}
    \cup {Answer("ok", 200, "json", ErrorBody),
          Answer("ok", 200, "empty", NoPayload),
          Answer("ok", 200, "other", NoPayload),
          Answer("ok", 500, "other", NoPayload),
          Answer("ok", 401, "json", ErrorBody),
          Answer("transport", 0, "empty", NoPayload)}

\* the page as the loop receives it from fetch_call_logs
Received(answer) ==
    IF get(answer).raised THEN FailedPage(IF answer.kind = "transport" THEN "transport"
                                          ELSE IF answer.status >= 300 THEN "http"
                                          ELSE "decode")
    ELSE [kind |-> "ok", payload |-> get(answer).data]

\* the entry the history keeps of a call of get or post: whether a request was
\* sent (the token was there), the answer, and what the call handed back; for a
\* page of the sync job, how its loop went on
Requested(method, sent, answer, result, next) ==
    [method |-> method, sent |-> sent, answer |-> answer, raised |-> ~sent \/ result.raised,
     data |-> IF sent THEN result.data ELSE NoPayload, next |-> next]

InitGateway ==
    /\ settings \in {[InitSettings(0, 0) EXCEPT !.sync_extensions = 0,
                                                !.access_token = AccessToken(0),
                                                !.token_expires_at_ts = x,
                                                !.last_sync_at_ts = c] :
                        x \in {0, Epoch + DefaultExpiresIn}, c \in {0, 700}}
    /\ now = Epoch
    /\ calls = <<>>
    /\ leads = <<>>
    /\ agents = InitAgents
    /\ hist = <<>>
    /\ proc = [p \in Procs |-> IdleProc]
    /\ run = IdleRun
    /\ reqLog = <<>>
    /\ caller = [c \in Callers |-> IdleCaller("pseries")]
    /\ pbx = IdlePbx
    /\ webhook_log = <<>>

\* the state after a pass of sync_call_logs whose page came through get
ApplyGet(pass, answer) ==
    /\ ApplyPass(pass)
    /\ hist' = Append(hist, Requested("get", pass.log # <<>>, answer, get(answer), pass.next))

\* sync_call_logs requests its next page through get and deals with it
GatewayFetch ==
    /\ run.pc = "call_logs"
    /\ run.page <= MaxPage
    /\ \E r \in IF _token_valid(settings, now) THEN {CHOOSE x \in SyncTokenResponses : TRUE}
                  ELSE SyncTokenResponses,
          answer \in GatewayAnswers :
          ApplyGet(LoopPass(run.pc, settings, now, Stores, pbx, run.page, <<r, r, r>>,
                            Received(answer), 0), answer)
    /\ UNCHANGED <<now, proc, caller, webhook_log>>

\* the state after a call of post, ensure_token() having answered tok
ApplyPost(tok, answer) ==
    /\ settings' = tok.settings
    /\ pbx' = tok.pbx
    /\ hist' = Append(hist, Requested("post", tok.ok, answer, post(answer), "none"))

\* a caller posts once, before the job's first run
PostRequest ==
    /\ run.n = 0
    /\ hist = <<>>
    /\ \E r \in IF _token_valid(settings, now) THEN {CHOOSE x \in SyncTokenResponses : TRUE}
                  ELSE SyncTokenResponses,
          answer \in GatewayAnswers :
          ApplyPost(ensure_token("pseries", settings, now, pbx, <<r, r, r>>), answer)
    /\ UNCHANGED <<now, calls, leads, agents, proc, run, reqLog, caller, webhook_log>>

NextGateway == SyncTick \/ StartRun \/ BeginCallLogs \/ GatewayFetch \/ FinishRun \/ PostRequest

SpecGateway == InitGateway /\ [][NextGateway]_vars

(***************************************************************************)
(* Properties of get and post                                              *)
(***************************************************************************)
\* the calls of get and post that sent their request
Sent == {k \in DOMAIN hist : hist[k].sent}

\* the answer carries an error code other than 0 under a success status
ApplicationError(answer) ==
    /\ answer.kind = "ok"
    /\ answer.status < 300
    /\ answer.text = "json"
    /\ answer.payload.isdict
    /\ PGet(answer.payload.d, "errcode").t = "int"
    /\ PGet(answer.payload.d, "errcode").i # 0

\* C15: get and post raise the request error, and hand no data to the caller, whenever
\* the upstream answers with a status of 300 or above, or with a success status and a
\* body whose error code is not 0.
C15_RaisesOnError ==
    \A k \in Sent :
        \/ hist[k].answer.kind = "ok" /\ hist[k].answer.status >= 300
        \/ ApplicationError(hist[k].answer)
        => hist[k].raised /\ hist[k].data = NoPayload

\* C16: for a success status with a body that is empty or not JSON, get and post hand
\* back an empty mapping and do not raise, and the loop of the sync job that asked for
\* the page ends normally.
C16_EmptyMappingNeverRaises ==
    \A k \in Sent :
        /\ hist[k].answer.kind = "ok"
        /\ hist[k].answer.status < 300
        /\ hist[k].answer.text \in {"empty", "other"}
        => /\ ~hist[k].raised
           /\ hist[k].data = EmptyMapping
           /\ hist[k].method = "get" => hist[k].next = "end"

(***************************************************************************)
(* utils.py: normalize_phone applied to the strings a payload may bring    *)
(***************************************************************************)
\* the longest phone string tried
MaxLen == 4

\* applications of normalize_phone to its own output
MaxApplied == 2

\* a digit of the country codes, two other digits, the plus sign and a blank
PhoneChars == {"9", "0", "5", "+", " "}

PhoneStrings == UNION {[1..n -> PhoneChars] : n \in 0..MaxLen}

CountryCodes == {<<"+", "9">>, <<"+", "9", "5">>}

\* a call of normalize_phone about to be made
PhoneCall(phone, default_cc) == [phone |-> phone, default_cc |-> default_cc, outs |-> <<>>]

InitPhone ==
    /\ settings = InitSettings(0, 0)
    /\ now = 0
    /\ calls = <<>>
    /\ leads = <<>>
    /\ agents = InitAgents
    /\ hist \in {<<PhoneCall(x, cc)>> : x \in PhoneStrings, cc \in CountryCodes}
    /\ proc = [p \in Procs |-> IdleProc]
    /\ run = IdleRun
    /\ reqLog = <<>>
    /\ caller = [c \in Callers |-> IdleCaller("pseries")]
    /\ pbx = IdlePbx
    /\ webhook_log = <<>>

\* normalize_phone is applied: first to the phone string, then to its own last output
NormalizePhone ==
    /\ Len(hist[1].outs) < MaxApplied
    /\ hist' = <<[hist[1] EXCEPT !.outs =
                    Append(@, normalize_phone(IF @ = <<>> THEN hist[1].phone ELSE @[Len(@)],
                                              hist[1].default_cc))]>>
    /\ UNCHANGED <<settings, now, calls, leads, agents, proc, run, reqLog, caller, pbx, webhook_log>>

NextPhone == NormalizePhone

SpecPhone == InitPhone /\ [][NextPhone]_vars

(***************************************************************************)
(* Properties of normalize_phone                                           *)
(***************************************************************************)
\* C17: normalize_phone is idempotent: applied to its own output, under the same
\* default country code, it returns that output, for every input string.
C17_Idempotent ==
    Len(hist[1].outs) >= 2 => hist[1].outs[2] = hist[1].outs[1]

\* C18: for every phone string beginning with 00, normalize_phone returns what it
\* returns for the string with that leading 00 replaced by +.
C18_DoubleZeroIsPlus ==
    /\ StartsWith(hist[1].phone, <<"0", "0">>)
    /\ Len(hist[1].outs) >= 1
    => hist[1].outs[1] = normalize_phone(<<"+">> \o Drop(hist[1].phone, 2), hist[1].default_cc)

\* 0059 was normalized, to +59
C18_Witness ==
    /\ hist[1].phone = <<"0", "0", "5", "9">>
    /\ Len(hist[1].outs) >= 1
    /\ hist[1].outs[1] = <<"+", "5", "9">>

(***************************************************************************)
(* api.py: the call_id derived for deliveries that bring none              *)
(***************************************************************************)
\* the payloads of deliveries without any identity field
NoIdPayloads ==
    {[from |-> S(f), to |-> S(t), status |-> S(st)] @@ ext @@ start :
        f \in {<<"1">>, <<"1", "|", "2">>},
        t \in {<<"3">>, <<"2", "|", "3">>},
        st \in {<<"b", "u", "s", "y">>, <<"r", "i", "n", "g", "i", "n", "g">>},
        ext \in {<<>>, [extension |-> S(<<"7">>)]},
        start \in {<<>>, [start_time |-> I(5)]}}

\* a delivery whose call_id is still to be derived
Underived(payload) == [payload |-> payload, data |-> _extract_event(payload), call_id |-> None]

InitFallback ==
    /\ settings = InitSettings(0, 0)
    /\ now = 0
    /\ calls = <<>>
    /\ leads = <<>>
    /\ agents = InitAgents
    /\ hist \in {<<Underived(a), Underived(b)>> : a \in NoIdPayloads, b \in NoIdPayloads}
    /\ proc = [p \in Procs |-> IdleProc]
    /\ run = IdleRun
    /\ reqLog = <<>>
    /\ caller = [c \in Callers |-> IdleCaller("pseries")]
    /\ pbx = IdlePbx
    /\ webhook_log = <<>>

\* _upsert_call_log gives the k-th delivery its call_id
DeriveCallId(k) ==
    /\ hist[k].call_id = None
    /\ ~Truthy(hist[k].data.call_id)
    /\ hist' = [hist EXCEPT ![k].call_id = S(_stable_fallback_id(hist[k].data))]
    /\ UNCHANGED <<settings, now, calls, leads, agents, proc, run, reqLog, caller, pbx, webhook_log>>

NextFallback == \E k \in 1..2 : DeriveCallId(k)

SpecFallback == InitFallback /\ [][NextFallback]_vars

(***************************************************************************)
(* Properties of the derived call_id                                       *)
(***************************************************************************)
\* the five fields the call_id is derived from
HashedFields(data) ==
    <<data.from_no, data.to_no, data.extension, data.status, data.start_time>>

\* C19: for deliveries lacking every identity field the derived call_id is a function
\* of (from, to, extension, status, start_time) only, and an injective one: the same
\* five values give the same call_id, and five values that differ in any field give
\* different call_ids.
C19_SameIdIffSameFields ==
    hist[1].call_id # None /\ hist[2].call_id # None =>
        (hist[1].call_id = hist[2].call_id
            <=> HashedFields(hist[1].data) = HashedFields(hist[2].data))

(***************************************************************************)
(* api.py: webhook() from the request as it arrives: the body still text,  *)
(* the connector enabled or not, the debug log on or off                   *)
(***************************************************************************)
\* a request body: the JSON text of a mapping ("dict"), of another JSON value
\* ("json"), text that is no JSON ("text"), or nothing ("empty")
Body(kind, value) == [kind |-> kind, value |-> value]

\* a parse that drops a body it cannot read
ParseBodyDropText(body) ==
    CASE body.kind = "dict" -> body.value
      [] body.kind = "json" -> [k \in {"payload"} |-> body.value]
      [] OTHER -> <<>>

\* the payload webhook() makes of the body: json.loads, with its two wrappings
ParseBody(body) ==
    CASE body.kind = "dict" -> body.value
      [] body.kind = "json" -> [k \in {"payload"} |-> body.value]
      [] body.kind = "text" -> [k \in {"raw"} |-> S(body.value)]
      [] OTHER -> <<>>

\* the delivery webhook() works on: the headers, the parsed payload, and the body
Parsed(body, x_yeastar_secret, x_webhook_secret) ==
    [x_yeastar_secret |-> x_yeastar_secret, x_webhook_secret |-> x_webhook_secret,
     payload |-> ParseBody(body), body |-> body]

RequestBodies ==
    {Body("dict", W_c20), Body("dict", W_internal),
     Body("dict", W_c20 @@ [secret |-> S(Secret)]),
     Body("json", I(5)),
     Body("text", <<"x">>), Body("text", <<"{", "k">>),
     Body("empty", <<>>)}

Requests ==
    {Parsed(body, h, None) : body \in RequestBodies, h \in {None, S(Secret), S(<<"z">>)}}

InitRequest ==
    /\ settings \in {[InitSettings(ii, 1) EXCEPT !.enabled = en, !.debug_webhook = dbg] :
                        ii \in {0, 1}, en \in {0, 1}, dbg \in {0, 1}}
    /\ now = 0
    /\ calls = <<>>
    /\ leads = <<>>
    /\ agents = InitAgents
    /\ hist = <<>>
    /\ proc = [p \in Procs |-> IdleProc]
    /\ run = IdleRun
    /\ reqLog = <<>>
    /\ caller = [c \in Callers |-> IdleCaller("pseries")]
    /\ pbx = IdlePbx
    /\ webhook_log = <<>>

\* webhook(): one request handled
HandleRequest == \E request \in Requests : UpsertAction("webhook", request)

NextRequest == HandleRequest

SpecRequest == InitRequest /\ [][NextRequest]_vars

(***************************************************************************)
(* Properties of webhook()                                                 *)
(***************************************************************************)
\* the text put into a message is the secret itself
Discloses(part, secret) == Strip(part) = secret

\* the secrets webhook() has to do with
WebhookSecrets == {Strip(Str(settings.webhook_secret))} \ {<<>>}

\* C21: no Error Log entry written by the webhook (the debug HIT log of the request
\* body, the secret-mismatch log, the skipped-call log) contains the shared secret.
C21_NoSecretLogged ==
    \A n \in DOMAIN webhook_log :
        \A part \in webhook_log[n].parts, secret \in WebhookSecrets : ~Discloses(part, secret)

\* the deliveries whose body was text that is no JSON
Malformed == {k \in DOMAIN hist : hist[k].path = "webhook" /\ hist[k].input.body.kind = "text"}

\* the payload that wraps the raw text of the k-th delivery as its one field
Wrapped(k) == [f \in {"raw"} |-> S(hist[k].input.body.value)]

\* the delivery was acceptable apart from its body: the connector enabled, the right
\* secret offered
OtherwiseAccepted(k) ==
    /\ settings.enabled # 0
    /\ SecretConfigured
    /\ FirstOffered(hist[k].input) = Strip(Str(settings.webhook_secret))

\* C22: a delivery whose body is not valid JSON is not failed for that: its payload is
\* the raw text wrapped as a single field, and when the delivery is otherwise accepted
\* a record is stored whose raw_payload holds the raw text.
C22_MalformedBodyKept ==
    \A k \in Malformed :
        /\ hist[k].input.payload = Wrapped(k)
        /\ hist[k].result = IF settings.enabled = 0 THEN "disabled"
                            ELSE IF OtherwiseAccepted(k) THEN "stored" ELSE "rejected"
        /\ OtherwiseAccepted(k) =>
              /\ hist[k].name \in DOMAIN StoresAfter(k).calls
              /\ RecordOf(k).raw_payload = Wrapped(k)

\* a malformed body was stored, and the store's record holds its text
C22_Witness ==
    /\ Len(hist) = 1
    /\ 1 \in Malformed
    /\ hist[1].input.body.value = <<"x">>
    /\ hist[1].result = "stored"
    /\ calls[hist[1].name].raw_payload = [f \in {"raw"} |-> S(<<"x">>)]

\* a delivery was turned away: the connector disabled, or the secret check failed
TurnedAway(e) == e.path = "webhook" /\ e.result \in {"disabled", "rejected"}

\* C30: a webhook delivery that is rejected (connector disabled, or secret check
\* failed) leaves the call-log store and the lead store as they were.
C30_RejectedChangesNothing ==
    [][Len(hist') = Len(hist) + 1 /\ TurnedAway(hist'[Len(hist')])
          => calls' = calls /\ leads' = leads /\ agents' = agents]_vars

\* a delivery was turned away when the stores held a call and a lead
C30_Witness ==
    /\ Len(hist) >= 2
    /\ TurnedAway(hist[Len(hist)])
    /\ hist[Len(hist)].input.payload = W_c20
    /\ hist[Len(hist) - 1].result = "stored"
    /\ Len(calls) >= 1
    /\ Len(leads) >= 1

(***************************************************************************)
(* The two ingestion paths given the same payload: the webhook's           *)
(* _extract_event and _upsert_call_log, and sync.py's upsert_call_log      *)
(***************************************************************************)
CanonicalFields ==
    {"call_id", "direction", "status", "from_number", "to_number", "extension", "duration",
     "recording_url"}

\* the payloads of one call, under the keys and with the values the PBX may use
PathPayloads ==
    {id @@ from @@ st @@ dur @@ [to |-> S(<<"2", "0", "1">>)] :
        id \in {[call_id |-> S(c1)], [callId |-> S(c1)], [id |-> S(c1)]},
        from \in {[from |-> S(<<"0", "5", "5", "5", "1">>)], [src |-> S(<<"0", "5", "5", "5", "1">>)]},
        st \in {[status |-> S(<<"b", "u", "s", "y">>)],
                [state |-> S(<<"b", "u", "s", "y">>), event |-> S(<<"e", "n", "d">>)]},
        dur \in {<<>>, [duration |-> I(5)], [duration |-> S(<<"7">>)], [duration |-> I(-3)]}}

\* a payload neither path has dealt with yet
Unhandled(payload) == [payload |-> payload, webhook |-> <<>>, sync |-> <<>>]

\* the canonical fields of the record a path would insert
Canonical(doc_data) == [f \in CanonicalFields |-> doc_data[f]]

InitPaths ==
    /\ settings = InitSettings(0, 0)
    /\ now = 0
    /\ calls = <<>>
    /\ leads = <<>>
    /\ agents = InitAgents
    /\ hist \in {<<Unhandled(payload)>> : payload \in PathPayloads}
    /\ proc = [p \in Procs |-> IdleProc]
    /\ run = IdleRun
    /\ reqLog = <<>>
    /\ caller = [c \in Callers |-> IdleCaller("pseries")]
    /\ pbx = IdlePbx
    /\ webhook_log = <<>>

\* the webhook path derives the record of the payload
ViaWebhook ==
    /\ hist[1].webhook = <<>>
    /\ hist' = <<[hist[1] EXCEPT !.webhook =
                    Canonical(WebhookLookup(_extract_event(hist[1].payload), hist[1].payload,
                                            settings, now, calls, leads, agents).doc_data)]>>
    /\ UNCHANGED <<settings, now, calls, leads, agents, proc, run, reqLog, caller, pbx,
                   webhook_log>>

\* the pull path derives the record of the payload
ViaSync ==
    /\ hist[1].sync = <<>>
    /\ hist' = <<[hist[1] EXCEPT !.sync =
                    Canonical(SyncLookup(hist[1].payload, settings, now, calls).doc_data)]>>
    /\ UNCHANGED <<settings, now, calls, leads, agents, proc, run, reqLog, caller, pbx,
                   webhook_log>>

NextPaths == ViaWebhook \/ ViaSync

SpecPaths == InitPaths /\ [][NextPaths]_vars

(***************************************************************************)
(* Properties of the two paths                                             *)
(***************************************************************************)
\* the same value, an empty text and an absent value counting as the same
SameValue(a, b) == a = b \/ (IsEmptyValue(a) /\ IsEmptyValue(b))

\* C23: for every raw payload the webhook path and the pull path derive the same
\* call_id, direction, status, from_number, to_number, extension, duration and
\* recording_url.
C23_SameOnBothPaths ==
    hist[1].webhook # <<>> /\ hist[1].sync # <<>> =>
        \A f \in CanonicalFields : SameValue(hist[1].webhook[f], hist[1].sync[f])

(***************************************************************************)
(* Further properties of the sync job                                      *)
(***************************************************************************)
\* the completeness check as the claim words it, on the entry of a received page
ClaimedMore(entry) ==
    IF entry.has_total THEN entry.page * settings.page_size < entry.total
    ELSE entry.got >= settings.page_size

\* the loop went on after the page of the entry
WentOn(entry) == entry.kind = "ok" /\ entry.got > 0 /\ ClaimedMore(entry)

\* C24: a pagination loop requests pages 1, 2, 3, ... in this order, none skipped and
\* none twice, and after a page p with items it requests page p + 1 exactly when an
\* integer total is present and p * page_size < total, or none is present and the page
\* held at least page_size items.
C24_PagesInOrder ==
    /\ \A k \in DOMAIN reqLog : reqLog[k].page = k
    /\ \A k \in 1..(Len(reqLog) - 1) : WentOn(reqLog[k])
    /\ run.pc \in {"extensions", "call_logs"} =>
          /\ run.page = Len(reqLog) + 1
          /\ reqLog # <<>> => WentOn(reqLog[Len(reqLog)])
    /\ LoopEnded /\ reqLog # <<>> => ~WentOn(reqLog[Len(reqLog)])

\* a loop with totals ended after its second page, which held items: 2 * page_size
\* was not below the total
C24_Witness ==
    /\ LoopEnded
    /\ Len(reqLog) = 2
    /\ reqLog[1].has_total /\ reqLog[2].has_total
    /\ reqLog[2].got = settings.page_size
    /\ reqLog[2].total = 3

(***************************************************************************)
(* sync.py: _extract_items applied to the response values a PBX may send   *)
(***************************************************************************)
\* what a key of a response may hold: a list, a number, a mapping with a list under
\* one or two keys, or a mapping without any
ResponseValues ==
    {PList(<<E_201>>), PList(<<>>), PInt(1),
     PDict([k \in {"list"} |-> PList(<<E_202>>)]),
     PDict([k \in {"data", "items"} |-> IF k = "data" THEN PList(<<R_cdr>>) ELSE PList(<<R_short>>)]),
     PDict([k \in {"total"} |-> PInt(1)])}

\* the responses: mappings holding such values under "data", "items", "result" and
\* an unknown key, or lacking the key, and values that are no mapping
ResponseBodies ==
    {[isdict |-> FALSE, d |-> <<>>]}
    \cup {[isdict |-> TRUE, d |-> a @@ b @@ c @@ u] :
            a \in {<<>>} \cup {[k \in {"data"} |-> v] : v \in ResponseValues},
            b \in {<<>>} \cup {[k \in {"items"} |-> v] : v \in ResponseValues \ {PList(<<>>)}},
            c \in {<<>>} \cup {[k \in {"result"} |-> v] : v \in {PList(<<R_cdr, R_short>>), PInt(1)}},
            u \in {<<>>, [k \in {"rows"} |-> PList(<<E_202>>)]}}

\* a call of _extract_items about to be made
Unextracted(payload) == [payload |-> payload, returned |-> FALSE, items |-> <<>>]

InitExtract ==
    /\ settings = InitSettings(0, 0)
    /\ now = 0
    /\ calls = <<>>
    /\ leads = <<>>
    /\ agents = InitAgents
    /\ hist \in {<<Unextracted(payload)>> : payload \in ResponseBodies}
    /\ proc = [p \in Procs |-> IdleProc]
    /\ run = IdleRun
    /\ reqLog = <<>>
    /\ caller = [c \in Callers |-> IdleCaller("pseries")]
    /\ pbx = IdlePbx
    /\ webhook_log = <<>>

\* _extract_items returns
ExtractItems ==
    /\ ~hist[1].returned
    /\ hist' = <<[hist[1] EXCEPT !.returned = TRUE, !.items = _extract_items(hist[1].payload)]>>
    /\ UNCHANGED <<settings, now, calls, leads, agents, proc, run, reqLog, caller, pbx,
                   webhook_log>>

NextExtract == ExtractItems

SpecExtract == InitExtract /\ [][NextExtract]_vars

(***************************************************************************)
(* Properties of _extract_items                                            *)
(***************************************************************************)
\* the nested keys of the value v, a mapping, that hold a list, by their rank
NestedLists(v) == {j \in DOMAIN NestedItemKeys : PGet(v.d, NestedItemKeys[j]).t = "list"}

\* the value holds a list: it is one, or it is a mapping with one under a nested key
HoldsList(v) == v.t = "list" \/ (v.t = "dict" /\ NestedLists(v) # {})

\* the list the value holds
ListIn(v) ==
    IF v.t = "list" THEN v.rows ELSE PGet(v.d, NestedItemKeys[SetMin(NestedLists(v))]).rows

\* the known keys of the mapping d that hold a list, by their rank
Matching(d) == {n \in DOMAIN ItemKeys : HoldsList(PGet(d, ItemKeys[n]))}

\* C25: _extract_items returns a list for every response value: the first list found
\* under data, items, list, records, result in this order, directly under the key or
\* one level below it, and the empty list when the value is no mapping or no key
\* matches.
C25_FirstListFound ==
    hist[1].returned =>
        hist[1].items =
            IF ~hist[1].payload.isdict \/ Matching(hist[1].payload.d) = {} THEN <<>>
            ELSE ListIn(PGet(hist[1].payload.d, ItemKeys[SetMin(Matching(hist[1].payload.d))]))

\* data held a number and items a mapping with lists under data and items: the list
\* under the nested items was returned
C25_Witness ==
    /\ hist[1].returned
    /\ PGet(hist[1].payload.d, "data") = PInt(1)
    /\ PGet(hist[1].payload.d, "items").t = "dict"
    /\ "result" \in DOMAIN hist[1].payload.d
    /\ hist[1].items = <<R_short>>

(***************************************************************************)
(* Further properties of the token                                         *)
(***************************************************************************)
\* the exchanges the stored access token may stem from: the one before the first
\* call (0) and those the PBX answered with a token
Exchanges == 0..pbx.issued

\* C26: the stored credential is replaced as a whole: in every reachable state the
\* stored access token and the stored refresh token stem from the same successful
\* exchange (a response that brings no refresh token leaving none stored).
C26_CredentialFromOneExchange ==
    settings.access_token # <<>> =>
        \E n \in Exchanges :
            /\ settings.access_token = AccessToken(n)
            /\ settings.refresh_token \in {<<>>, RefreshToken(n)}

(***************************************************************************)
(* The agent records: extensions sighted in the roster (sync_extensions)   *)
(* and in call events (the webhook, sync_call_logs), starting from an      *)
(* empty Yeastar Agent table                                               *)
(***************************************************************************)
\* sightings per behaviour
MaxSightings == 3

E_201_renamed == [ext |-> I(201), username |-> S(<<"C">>)]

E_201_unnamed == [extension |-> S(<<"2", "0", "1">>), name |-> S(<<>>)]

\* the entries the roster may bring
RosterEntries == {E_201, E_202, E_201_renamed, E_201_unnamed}

\* the entry the history keeps of a roster entry handled
RosterSighting(ext, t) ==
    [path |-> "roster", input |-> ext, at |-> t, result |-> "roster", name |-> 0, call_id |-> None]

InitAgentSightings ==
    /\ settings = InitSettings(0, 0)
    /\ now = 0
    /\ calls = <<>>
    /\ leads = <<>>
    /\ agents = <<>>
    /\ hist = <<>>
    /\ proc = [p \in Procs |-> IdleProc]
    /\ run = IdleRun
    /\ reqLog = <<>>
    /\ caller = [c \in Callers |-> IdleCaller("pseries")]
    /\ pbx = IdlePbx
    /\ webhook_log = <<>>

\* upsert_agent_from_extension(ext): one entry of a roster page handled
UpsertAgent ==
    \E ext \in RosterEntries :
        /\ Len(hist) < MaxSightings
        /\ agents' = upsert_agent_from_extension(ext, agents)
        /\ hist' = Append(hist, RosterSighting(ext, now))
        /\ UNCHANGED <<settings, now, calls, leads, proc, run, reqLog, caller, pbx, webhook_log>>

NextAgentSightings == UpsertAgent \/ Webhook \/ UpsertCallLog

SpecAgentSightings == InitAgentSightings /\ [][NextAgentSightings]_vars

\* the extension and the name a roster entry shows
RosterExtension(ext) == Strip(Str(Or(OrChain(ext, <<"extension", "ext", "number">>), S(<<>>))))

RosterName(ext) == Strip(Str(Or(OrChain(ext, <<"name", "username", "display_name">>), S(<<>>))))

RosterSightings == {k \in DOMAIN hist : hist[k].path = "roster"}

\* the extensions sighted so far: in the roster, and in the call events stored
SightedInRoster == {RosterExtension(hist[k].input) : k \in RosterSightings} \ {<<>>}

SightedInCalls == {Str(calls[i].extension) : i \in {j \in DOMAIN calls : Truthy(calls[j].extension)}}

AgentsOf(e) == {i \in DOMAIN agents : agents[i].extension = S(e)}

\* the roster sightings of an extension that showed a name
Named(e) ==
    {k \in RosterSightings : RosterExtension(hist[k].input) = e /\ RosterName(hist[k].input) # <<>>}

\* C27: after any sequence of roster sightings and call events there is exactly one
\* agent record for every extension sighted in the roster or in a call event, and its
\* name is the most recent non-empty name sighted for the extension.
C27_OneAgentPerSighted ==
    \A e \in SightedInRoster \cup SightedInCalls :
        /\ Cardinality(AgentsOf(e)) = 1
        /\ Named(e) # {} =>
              \A i \in AgentsOf(e) : agents[i].agent_name = S(RosterName(hist[SetMax(Named(e))].input))

(***************************************************************************)
(* Further properties of the upserts                                       *)
(***************************************************************************)
\* the customer's normalized number in the k-th delivery: the from number of an
\* inbound or incoming call, else the to number
CustomerNumber(k) ==
    IF DeliveredEvent(k).direction \in {S(<<"i", "n", "b", "o", "u", "n", "d">>),
                                         S(<<"i", "n", "c", "o", "m", "i", "n", "g">>)}
    THEN Str(DeliveredNumbers(k).from_number) ELSE Str(DeliveredNumbers(k).to_number)

\* the webhook deliveries stored so far
StoredDeliveries == {k \in Answered : hist[k].result = "stored"}

InDirectory(number) == \E i \in DOMAIN Customers : Customers[i].mobile_no = S(number)

\* C28: with lead creation switched on, every lead the webhook made is keyed by the
\* non-empty normalized customer number of a stored delivery that the directory did
\* not hold, and no two leads have the same number.
C28_OneLeadPerNumber ==
    settings.create_lead_if_not_found # 0 =>
        /\ \A i \in DOMAIN leads :
              /\ Str(leads[i].mobile_no) # <<>>
              /\ ~InDirectory(Str(leads[i].mobile_no))
              /\ \E k \in StoredDeliveries : CustomerNumber(k) = Str(leads[i].mobile_no)
        /\ \A i, j \in DOMAIN leads : leads[i].mobile_no = leads[j].mobile_no => i = j

\* C29: the duration of every stored call record is absent or a non-negative integer,
\* whichever path wrote it and whatever duration arrived.
C29_DurationNonNegative ==
    \A i \in DOMAIN calls :
        \/ calls[i].duration = None
        \/ calls[i].duration.t = "int" /\ calls[i].duration.i >= 0

(***************************************************************************)
(* The sync job with runs that take long: between two steps of a run the   *)
(* clock may move by the overlap, or by a second more                      *)
(***************************************************************************)
\* the longest a behaviour lasts, in seconds
LongestElapsed == Overlap + 1

InitCycles ==
    /\ settings \in {[InitSettings(0, 0) EXCEPT !.enable_sync_jobs = 1, !.sync_extensions = x,
                                                !.pbx_base_url = <<"h">>, !.last_sync_at_ts = c] :
                        x \in {0, 1}, c \in {0, 700}}
    /\ now = Epoch
    /\ calls = <<>>
    /\ leads = <<>>
    /\ agents = InitAgents
    /\ hist = <<>>
    /\ proc = [p \in Procs |-> IdleProc]
    /\ run = IdleRun
    /\ reqLog = <<>>
    /\ caller = [c \in Callers |-> IdleCaller("pseries")]
    /\ pbx = IdlePbx
    /\ webhook_log = <<>>

\* time passes while the job runs or waits for the scheduler
LongTick ==
    /\ \E step \in {Overlap, Overlap + 1} :
          /\ now + step <= Epoch + LongestElapsed
          /\ now' = now + step
    /\ UNCHANGED <<settings, calls, leads, agents, hist, proc, run, reqLog, caller, pbx, webhook_log>>

NextCycles == LongTick \/ StartRun \/ BeginCallLogs \/ FetchPage \/ FinishRun

SpecCycles == InitCycles /\ [][NextCycles]_vars

\* this run and the run before it both came through, each with a window
TwoRunsThrough == run.last = "done" /\ run.last_end # -1 /\ run.pc = "done" /\ run.start_ts # -1

\* C31: two successful runs in a row leave no gap: the window of the later one starts
\* no later than the window the earlier one queried ended, however long the earlier
\* run took.
C31_NoGapBetweenWindows == TwoRunsThrough => run.start_ts <= run.last_end

====
